---- MODULE Spec2Model ----
(***************************************************************************)
(* A model of the rvo-connector library: the SOAP request builders, the    *)
(* TVS token exchange, the RvoClient service calls over a transport        *)
(* collaborator, the reference mutation flow of the examples, and the      *)
(* response extractors, the posList parser and the feature projector.      *)
(*                                                                         *)
(* Strings that reach an XML template are sequences of one-character       *)
(* strings, so that escaping is computed character by character.  The      *)
(* empty sequence stands for a missing (undefined) or empty string: the    *)
(* source tests both with the same falsy check.                            *)
(***************************************************************************)
EXTENDS Integers, Sequences, FiniteSets, TLC

VARIABLES
    bIn,        \* builder model: the parameters handed to a request builder
    bOut,       \* builder model: what the builder returned or threw
    config,     \* RvoClient.config and the TvsAuth built from it
    accessToken,\* RvoClient.accessToken
    env,        \* what surrounds the client: file system, server, build
    calls,      \* every call made on the client so far, in invocation order
    history,    \* what has happened: token stores and file-system operations
    flow,       \* the reference mutation flow: its position, locals and calls
    xIn,        \* extractor model: the parsed tree or text handed to a function
    xOut        \* extractor model: what the function returned or threw

buildVars == <<bIn, bOut>>
clientVars == <<config, accessToken, env, calls, history>>
extractVars == <<xIn, xOut>>
vars == <<bIn, bOut, config, accessToken, env, calls, history, flow, xIn, xOut>>

(***************************************************************************)
(* Bounds                                                                  *)
(***************************************************************************)
MaxStrLen == 2      \* longest caller-supplied string that is enumerated
MaxMuts == 2        \* longest mutation list that is enumerated

(***************************************************************************)
(* Strings                                                                 *)
(***************************************************************************)
Chars == {"a", "&", "<", ">", "'", "\""}
Special == {"&", "<", ">", "'", "\""}

RECURSIVE SeqsUpTo(_, _)
SeqsUpTo(S, n) ==
    IF n = 0 THEN {<<>>}
    ELSE LET shorter == SeqsUpTo(S, n - 1)
         IN  shorter \cup {Append(s, c) : s \in shorter, c \in S}

Strs == SeqsUpTo(Chars, MaxStrLen)

RECURSIVE replaceAll(_, _, _)
replaceAll(s, c, r) ==
    IF s = <<>> THEN <<>>
    ELSE (IF Head(s) = c THEN r ELSE <<Head(s)>>) \o replaceAll(Tail(s), c, r)

AmpEntity == <<"&", "a", "m", "p", ";">>
LtEntity == <<"&", "l", "t", ";">>
GtEntity == <<"&", "g", "t", ";">>
AposEntity == <<"&", "a", "p", "o", "s", ";">>
QuotEntity == <<"&", "q", "u", "o", "t", ";">>

escapeXml(unsafe) ==
    replaceAll(
      replaceAll(
        replaceAll(
          replaceAll(
            replaceAll(unsafe, "&", AmpEntity),
            "<", LtEntity),
          ">", GtEntity),
        "'", AposEntity),
      "\"", QuotEntity)

(***************************************************************************)
(* Thrown errors and returned values.  A builder either returns a request  *)
(* or throws; Throw(e) is the thrown Error, named by its message.          *)
(***************************************************************************)
Throw(e) == [kind |-> "error", error |-> e]

ClientNameRequired == "Client Name required"
DeleteRequiresEndDate == "Mutation action 'D' (Delete) requires an 'EndDate' property"
UnsupportedGeometry == "Unsupported geometry type for GML conversion"

NoAba == [present |-> FALSE]
Aba(u, p) == [present |-> TRUE, username |-> u, password |-> p]
NoHeader == [present |-> FALSE]
NoGeometry == [type |-> "none"]
NoBorder == [present |-> FALSE]

(***************************************************************************)
(* JavaScript numbers.  An integer n is Number(n); a number with a         *)
(* fractional part is kept as its decimal expansion: the whole part of its *)
(* magnitude, the digits after the point (the last one not 0) and its      *)
(* sign.  Texts of numbers are sequences of one-character strings.         *)
(***************************************************************************)
Digits == <<"0", "1", "2", "3", "4", "5", "6", "7", "8", "9">>
IsDigit(c) == \E d \in 1..10 : Digits[d] = c
DigitValue(c) == (CHOOSE d \in 1..10 : Digits[d] = c) - 1
NaN == [nan |-> TRUE]
Number(n) == [nan |-> FALSE, value |-> n]

RECURSIVE dropZeros(_)
dropZeros(frac) ==
    IF frac # <<>> /\ frac[Len(frac)] = 0 THEN dropZeros(SubSeq(frac, 1, Len(frac) - 1))
    ELSE frac

\* The number with the given sign, whole part and digits after the point.
Decimal(negative, whole, frac) ==
    IF dropZeros(frac) = <<>> THEN Number(IF negative THEN 0 - whole ELSE whole)
    ELSE [nan |-> FALSE, value |-> whole, frac |-> dropZeros(frac), negative |-> negative]

IsInteger(x) == DOMAIN x = {"nan", "value"}
IsNegative(x) == IF IsInteger(x) THEN x.value < 0 ELSE x.negative
WholeOf(x) == IF x.value < 0 THEN 0 - x.value ELSE x.value
FracOf(x) == IF IsInteger(x) THEN <<>> ELSE x.frac

RECURSIVE Pow10(_)
Pow10(k) == IF k = 0 THEN 1 ELSE 10 * Pow10(k - 1)

\* The decimal digits of a natural number, and the same padded with leading
\* zeros to a width.
RECURSIVE digitsOf(_)
digitsOf(n) ==
    IF n < 10 THEN <<Digits[n + 1]>> ELSE Append(digitsOf(n \div 10), Digits[(n % 10) + 1])

RECURSIVE padStart(_, _)
padStart(s, width) == IF Len(s) >= width THEN s ELSE padStart(<<"0">> \o s, width)

\* The value of the first k digits after the point, as a natural number.
RECURSIVE leadingDigits(_, _)
leadingDigits(frac, k) ==
    IF k = 0 THEN 0
    ELSE 10 * leadingDigits(frac, k - 1) + (IF k <= Len(frac) THEN frac[k] ELSE 0)

\* A toFixed that gives the shortest text of the number: no padding and no
\* rounding.
toShortest(x, fractionDigits) ==
    IF x.nan THEN <<"N", "a", "N">>
    ELSE (IF IsNegative(x) THEN <<"-">> ELSE <<>>) \o digitsOf(WholeOf(x))
         \o (IF FracOf(x) = <<>> THEN <<>>
             ELSE <<".">> \o [i \in 1..Len(FracOf(x)) |-> Digits[FracOf(x)[i] + 1]])

\* Number.prototype.toFixed for 0 < fractionDigits: the integer n for which
\* n / 10^fractionDigits is nearest to the magnitude, the larger one of two;
\* then the sign, the whole part, a point and fractionDigits digits.
toFixed(x, fractionDigits) ==
    IF x.nan THEN <<"N", "a", "N">>
    ELSE LET roundUp == Len(FracOf(x)) > fractionDigits /\ FracOf(x)[fractionDigits + 1] >= 5
             n == WholeOf(x) * Pow10(fractionDigits)
                  + leadingDigits(FracOf(x), fractionDigits)
                  + (IF roundUp THEN 1 ELSE 0)
         IN  (IF IsNegative(x) THEN <<"-">> ELSE <<>>)
             \o digitsOf(n \div Pow10(fractionDigits))
             \o <<".">>
             \o padStart(digitsOf(n % Pow10(fractionDigits)), fractionDigits)

(***************************************************************************)
(* proj4 is not part of the sources.  The positions a caller passes to the *)
(* encoder are named; RDNew gives, for each, the pair of numbers the       *)
(* library answers for the projection to EPSG:28992.  The projection of a  *)
(* decoded point to EPSG:4326 is kept as a term that names the point and   *)
(* the two reference systems.                                              *)
(***************************************************************************)
Positions == {"P1", "P2", "P3"}

RDNew(position) ==
    CASE position = "P1" -> <<Decimal(FALSE, 1550, <<1, 2, 3, 4, 5>>), Number(4630)>>
      [] position = "P2" -> <<Decimal(FALSE, 0, <<9, 9, 9, 9, 5>>),
                              Decimal(TRUE, 0, <<0, 0, 0, 0, 4>>)>>
      [] position = "P3" -> <<Decimal(TRUE, 12, <<5>>), Decimal(FALSE, 7, <<0, 0, 0, 1, 4>>)>>

proj4(from, to, point) ==
    IF from = "EPSG:4326" THEN RDNew(point)
    ELSE [from |-> from, to |-> to, point |-> point]

transformCoordinatesToRD(coordinates) ==
    [i \in 1..Len(coordinates) |-> proj4("EPSG:4326", "EPSG:28992", coordinates[i])]

\* A join that leaves the separator out.
RECURSIVE concat(_, _)
concat(pieces, separator) ==
    IF pieces = <<>> THEN <<>> ELSE pieces[1] \o concat(Tail(pieces), separator)

\* Array.prototype.join.
RECURSIVE join(_, _)
join(pieces, separator) ==
    IF pieces = <<>> THEN <<>>
    ELSE IF Len(pieces) = 1 THEN pieces[1]
    ELSE pieces[1] \o separator \o join(Tail(pieces), separator)

(***************************************************************************)
(* Geometry encoder (src/src/utils/geometry.ts).  The GML text is a        *)
(* sequence of tokens: one per tag, and one per character of a position    *)
(* list.                                                                   *)
(***************************************************************************)
ringToPosList(ring) ==
    LET rdRing == transformCoordinatesToRD(ring)
    IN  join([i \in 1..Len(rdRing) |->
                 toFixed(rdRing[i][1], 4) \o <<" ">> \o toFixed(rdRing[i][2], 4)],
             <<" ">>)

RingA == <<"P1", "P2">>
RingB == <<"P3">>

RECURSIVE interiorsGML(_, _)
interiorsGML(rings, i) ==
    IF i > Len(rings) THEN <<>>
    ELSE <<"<gml:interior>", "<gml:LinearRing>", "<gml:posList srsName=\"EPSG:28992\">">>
         \o ringToPosList(rings[i])
         \o <<"</gml:posList>", "</gml:LinearRing>", "</gml:interior>">>
         \o interiorsGML(rings, i + 1)

\* A polygon builder that writes the exterior ring only.
buildExteriorGML(rings) ==
    <<"<gml:Polygon>">>
    \o (IF Len(rings) > 0
        THEN <<"<gml:exterior>", "<gml:LinearRing>", "<gml:posList srsName=\"EPSG:28992\">">>
             \o ringToPosList(rings[1])
             \o <<"</gml:posList>", "</gml:LinearRing>", "</gml:exterior>">>
        ELSE <<>>)
    \o <<"</gml:Polygon>">>

buildPolygonGML(rings) ==
    <<"<gml:Polygon>">>
    \o (IF Len(rings) > 0
        THEN <<"<gml:exterior>", "<gml:LinearRing>", "<gml:posList srsName=\"EPSG:28992\">">>
             \o ringToPosList(rings[1])
             \o <<"</gml:posList>", "</gml:LinearRing>", "</gml:exterior>">>
        ELSE <<>>)
    \o interiorsGML(rings, 2)
    \o <<"</gml:Polygon>">>

RECURSIVE surfaceMembersGML(_, _)
surfaceMembersGML(polys, i) ==
    IF i > Len(polys) THEN <<>>
    ELSE <<"<gml:surfaceMember>">> \o buildPolygonGML(polys[i])
         \o <<"</gml:surfaceMember>">> \o surfaceMembersGML(polys, i + 1)

\* An encoder that gives the empty text for a geometry it does not know.
convertKnownGeoJSONToGML(geometry) ==
    IF geometry = NoGeometry THEN [ok |-> TRUE, gml |-> <<>>]
    ELSE IF geometry.type = "Polygon"
         THEN [ok |-> TRUE, gml |-> buildPolygonGML(geometry.coordinates)]
    ELSE IF geometry.type = "MultiPolygon"
         THEN [ok |-> TRUE,
               gml |-> <<"<gml:MultiSurface>">>
                       \o surfaceMembersGML(geometry.coordinates, 1)
                       \o <<"</gml:MultiSurface>">>]
    ELSE [ok |-> TRUE, gml |-> <<>>]

\* Returns [ok |-> TRUE, gml |-> tokens], or [ok |-> FALSE] when it throws
\* the unsupported-geometry error.
convertGeoJSONToGML(geometry) ==
    IF geometry = NoGeometry THEN [ok |-> TRUE, gml |-> <<>>]
    ELSE IF geometry.type = "Polygon"
         THEN [ok |-> TRUE, gml |-> buildPolygonGML(geometry.coordinates)]
    ELSE IF geometry.type = "MultiPolygon"
         THEN [ok |-> TRUE,
               gml |-> <<"<gml:MultiSurface>">>
                       \o surfaceMembersGML(geometry.coordinates, 1)
                       \o <<"</gml:MultiSurface>">>]
    ELSE [ok |-> FALSE, error |-> UnsupportedGeometry]

(***************************************************************************)
(* Request builders.  A request is [kind, op, header, slots, fields]:      *)
(* slots maps each element that holds a caller-supplied value to the text  *)
(* written between its tags.  Generated values (message id, issue date)    *)
(* are not caller-supplied and are left out.                               *)
(***************************************************************************)
DefaultBeginDate == <<"y", "0">>    \* `${currentYear}-01-01`
DefaultEndDate2 == <<"y", "2">>     \* `${currentYear + 2}-01-01`

Or(s, default) == IF s # <<>> THEN s ELSE default      \* JavaScript s || default

Opt(name, s, text) == IF s # <<>> THEN name :> text ELSE <<>>

Request(op, header, slots, fields) ==
    [kind |-> "request", op |-> op, header |-> header, slots |-> slots,
     fields |-> fields]

\* src/src/soap/builder.ts: every interpolated parameter goes through escapeXml.
buildBedrijfspercelenRequest(params) ==
    IF params.issuerId = <<>> \/ params.senderId = <<>>
    THEN Throw("Client Name is required for the SOAP request")
    ELSE Request("CRPRQBP",
           IF params.abaCredentials.present
           THEN [present |-> TRUE,
                 Username |-> escapeXml(params.abaCredentials.username),
                 Password |-> escapeXml(Or(params.abaCredentials.password, <<>>))]
           ELSE NoHeader,
           ("spec:PeriodBeginDate" :>
                escapeXml(Or(params.periodBeginDate, DefaultBeginDate)))
           @@ ("spec:PeriodEndDate" :>
                escapeXml(Or(params.periodEndDate, DefaultEndDate2)))
           @@ ("exc:Issuer" :> escapeXml(params.issuerId))
           @@ ("exc:Sender" :> escapeXml(params.senderId))
           @@ Opt("opv:ThirdPartyFarmID", params.farmId, escapeXml(params.farmId)),
           <<>>)

\* src/unnamed/part_003: the envelope and document helpers of the mutation
\* lifecycle builders interpolate their arguments as they are.
buildSoapEnvelope(bodyContent, abaCredentials) ==
    [bodyContent EXCEPT !.header =
        IF abaCredentials.present
        THEN [present |-> TRUE,
              Username |-> abaCredentials.username,
              Password |-> Or(abaCredentials.password, <<>>)]
        ELSE NoHeader]

buildExchangedDocument(type, issuerId, senderId) ==
    Request(type, NoHeader,
            ("exc:Issuer" :> issuerId) @@ ("exc:Sender" :> senderId), <<>>)

\* A strip that leaves the text as it is.
keepPolygonTags(gml) == gml

\* The outer-tag strip of buildMuterenRequest:
\* fullGml.replace(/^<gml:Polygon>|<\/gml:Polygon>$/g, "").
stripPolygonTags(gml) ==
    LET front == IF gml # <<>> /\ Head(gml) = "<gml:Polygon>" THEN Tail(gml) ELSE gml
    IN  IF front # <<>> /\ front[Len(front)] = "</gml:Polygon>"
        THEN SubSeq(front, 1, Len(front) - 1)
        ELSE front

PropNames ==
    {"CropFieldID", "CropFieldVersion", "CropFieldDesignator", "ThirdPartyCropFieldID",
     "BeginDate", "EndDate", "Country", "RegulatorySoiltypeCode", "CropTypeCode",
     "CropProductionPurposeCode", "FieldUseCode", "VarietyCode", "UseTitleCode"}

\* The <far:Field> element of one mutation (part_003 lines 200-224); idx is
\* the 0-based index of the forEach callback.
fieldXml(props, idx, borderXml) ==
    [slots |->
        ("fiel:FieldID" :> Or(props["CropFieldID"], <<"FLD-", idx>>))
        @@ ("crop:CropFieldID" :> Or(props["CropFieldID"], <<"NEW-", "uuid">>))
        @@ ("crop:CropFieldVersion" :> Or(props["CropFieldVersion"], <<"1">>))
        @@ ("crop:CropFieldDesignator" :> Or(props["CropFieldDesignator"], <<>>))
        @@ Opt("crop:ThirdPartyCropFieldID", props["ThirdPartyCropFieldID"],
               props["ThirdPartyCropFieldID"])
        @@ ("crop:BeginDate" :> Or(props["BeginDate"], <<"now">>))
        @@ Opt("crop:EndDate", props["EndDate"], props["EndDate"])
        @@ ("crop:Country" :> Or(props["Country"], <<"N", "L">>))
        @@ Opt("crop:RegulatorySoiltypeCode", props["RegulatorySoiltypeCode"],
               props["RegulatorySoiltypeCode"])
        @@ ("crop:CropTypeCode" :> Or(props["CropTypeCode"], <<>>))
        @@ Opt("crop:CropProductionPurposeCode", props["CropProductionPurposeCode"],
               props["CropProductionPurposeCode"])
        @@ Opt("crop:FieldUseCode", props["FieldUseCode"], props["FieldUseCode"])
        @@ Opt("crop:VarietyCode", props["VarietyCode"], props["VarietyCode"])
        @@ ("crop:UseTitleCode" :> Or(props["UseTitleCode"], <<"0", "1">>)),
     Border |-> borderXml]

\* The loop body without its Delete check.
noDeleteCheck(mut) == FALSE

\* The Delete check of the loop body (part_003 lines 193-198).
deleteWithoutEndDate(mut) == mut.action = "D" /\ mut.properties["EndDate"] = <<>>

\* A geometry selection that prefers the structured geometry to the raw GML.
geometryXmlOfGeometryFirst(mut) ==
    IF mut.geometry # NoGeometry /\ convertGeoJSONToGML(mut.geometry).ok
    THEN [present |-> TRUE,
          content |-> stripPolygonTags(convertGeoJSONToGML(mut.geometry).gml)]
    ELSE IF mut.gml # <<>> THEN [present |-> TRUE, content |-> <<[raw |-> mut.gml]>>]
    ELSE NoBorder

\* The geometry handling of the loop body (part_003 lines 182-189): the
\* crop:Border element of one mutation, once the encoder has returned.
geometryXml(mut) ==
    IF mut.gml # <<>> THEN [present |-> TRUE, content |-> <<[raw |-> mut.gml]>>]
    ELSE IF mut.geometry # NoGeometry
         THEN [present |-> TRUE,
               content |-> stripPolygonTags(convertGeoJSONToGML(mut.geometry).gml)]
    ELSE NoBorder

\* The forEach loop of buildMuterenRequest (part_003 lines 176-225), from
\* the mutation at position i (1-based) on; it stops at the first throw.
RECURSIVE muterenFields(_, _, _)
muterenFields(mutations, i, fieldsXml) ==
    IF i > Len(mutations) THEN [ok |-> TRUE, fields |-> fieldsXml]
    ELSE
      LET mut == mutations[i]
          conv == IF mut.gml = <<>> /\ mut.geometry # NoGeometry
                  THEN convertGeoJSONToGML(mut.geometry)
                  ELSE [ok |-> TRUE, gml |-> <<>>]
      IN  IF ~conv.ok THEN [ok |-> FALSE, error |-> conv.error]
          ELSE IF deleteWithoutEndDate(mut)
               THEN [ok |-> FALSE, error |-> DeleteRequiresEndDate]
          ELSE muterenFields(mutations, i + 1,
                             Append(fieldsXml,
                                    fieldXml(mut.properties, i - 1, geometryXml(mut))))

buildMuterenRequest(params) ==
    IF params.issuerId = <<>> \/ params.senderId = <<>>
    THEN Throw(ClientNameRequired)
    ELSE
      LET exchangedDoc == buildExchangedDocument("CRPRQMB", params.issuerId, params.senderId)
          loop == muterenFields(params.mutations, 1, <<>>)
      IN  IF ~loop.ok THEN Throw(loop.error)
          ELSE buildSoapEnvelope(
                 [exchangedDoc EXCEPT
                    !.slots = Opt("mut:PrecedingTicketId", params.precedingTicketId,
                                  params.precedingTicketId)
                              @@ ("far:ThirdPartyFarmID" :> params.farmId)
                              @@ @,
                    !.fields = loop.fields],
                 params.abaCredentials)

\* A status request that names a fixed ticket instead of its argument.
buildProcesVoortgangRequestOfFirstTicket(ticketId, clientName, abaCredentials, farmId) ==
    buildSoapEnvelope(
      [buildExchangedDocument("CRPRQPV", clientName, clientName) EXCEPT
         !.slots = Opt("prv:ThirdPartyFarmID", farmId, farmId)
                   @@ ("prv:TicketId" :> <<"TICKET-1">>) @@ @],
      abaCredentials)

buildProcesVoortgangRequest(ticketId, clientName, abaCredentials, farmId) ==
    LET exchangedDoc == buildExchangedDocument("CRPRQPV", clientName, clientName)
    IN  buildSoapEnvelope(
          [exchangedDoc EXCEPT
             !.slots = Opt("prv:ThirdPartyFarmID", farmId, farmId)
                       @@ ("prv:TicketId" :> ticketId) @@ @],
          abaCredentials)

buildValidatieResultaatRequest(ticketId, clientName, abaCredentials, farmId) ==
    LET exchangedDoc == buildExchangedDocument("CRPRQVB", clientName, clientName)
    IN  buildSoapEnvelope(
          [exchangedDoc EXCEPT
             !.slots = Opt("val:ThirdPartyFarmID", farmId, farmId)
                       @@ ("val:TicketId" :> ticketId) @@ @],
          abaCredentials)

buildTanRequest(clientName, abaCredentials) ==
    buildSoapEnvelope(buildExchangedDocument("CRPRQOT", clientName, clientName),
                      abaCredentials)

\* A formalize request that names a fixed ticket instead of its argument.
buildFormaliserenRequestOfFirstTicket(ticketId, sequenceNumber, tanCode, clientName, abaCredentials) ==
    buildSoapEnvelope(
      [buildExchangedDocument("CRPRQFB", clientName, clientName) EXCEPT
         !.slots = ("frm:TicketId" :> <<"TICKET-1">>)
                   @@ ("frm:SequenceNumber" :> <<sequenceNumber>>)
                   @@ ("frm:AuthorisationNumber" :> tanCode) @@ @],
      abaCredentials)

buildFormaliserenRequest(ticketId, sequenceNumber, tanCode, clientName, abaCredentials) ==
    LET exchangedDoc == buildExchangedDocument("CRPRQFB", clientName, clientName)
    IN  buildSoapEnvelope(
          [exchangedDoc EXCEPT
             !.slots = ("frm:TicketId" :> ticketId)
                       @@ ("frm:SequenceNumber" :> <<sequenceNumber>>)
                       @@ ("frm:AuthorisationNumber" :> tanCode) @@ @],
          abaCredentials)

buildAnnulerenRequest(ticketId, clientName, abaCredentials, farmId) ==
    LET exchangedDoc == buildExchangedDocument("CRPRQAN", clientName, clientName)
    IN  buildSoapEnvelope(
          [exchangedDoc EXCEPT
             !.slots = Opt("ann:ThirdPartyFarmID", farmId, farmId)
                       @@ ("ann:TicketId" :> ticketId) @@ @],
          abaCredentials)

(***************************************************************************)
(* Builder model: Init draws a builder and its parameters, one action per  *)
(* builder applies it.                                                     *)
(***************************************************************************)
A == <<"a">>
RawGml == <<"<", "g", ">">>
SomeDate == <<"d">>

NoProps == [n \in PropNames |-> <<>>]

PolygonGeometry == [type |-> "Polygon", coordinates |-> <<RingA, RingB>>]
MultiPolygonGeometry == [type |-> "MultiPolygon", coordinates |-> <<<<RingA>>, <<RingB>>>>]
PointGeometry == [type |-> "Point", coordinates |-> <<5, 52>>]

\* Raw GML is combined with no geometry, with a polygon and with a geometry
\* the encoder rejects.
MutationShapes ==
    {[action |-> a, gml |-> gg[1], geometry |-> gg[2],
      properties |-> [NoProps EXCEPT !["EndDate"] = e]] :
        a \in {"I", "U", "D"},
        gg \in ({<<>>} \X {NoGeometry, PolygonGeometry, MultiPolygonGeometry, PointGeometry})
               \cup ({RawGml} \X {NoGeometry, PolygonGeometry, PointGeometry}),
        e \in {<<>>, SomeDate}}

BuilderOps ==
    {"buildBedrijfspercelenRequest", "buildMuterenRequest", "buildProcesVoortgangRequest",
     "buildValidatieResultaatRequest", "buildTanRequest", "buildFormaliserenRequest",
     "buildAnnulerenRequest"}

DefaultParams ==
    [issuerId |-> A, senderId |-> A, farmId |-> A, periodBeginDate |-> <<>>,
     periodEndDate |-> <<>>, abaCredentials |-> NoAba, precedingTicketId |-> <<>>,
     mutations |-> <<>>, ticketId |-> A, sequenceNumber |-> 1, tanCode |-> A]

StringParams ==
    {"issuerId", "senderId", "farmId", "periodBeginDate", "periodEndDate",
     "precedingTicketId", "ticketId", "tanCode"}

\* One caller-supplied string at a time takes every value of Strs.
StringProbes ==
    {[DefaultParams EXCEPT ![k] = s] : k \in StringParams, s \in Strs}
    \cup {[DefaultParams EXCEPT !.abaCredentials = Aba(u, p)] :
            u \in Strs, p \in {<<>>, A}}
    \cup {[DefaultParams EXCEPT !.abaCredentials = Aba(A, p)] : p \in Strs}
    \cup {[DefaultParams EXCEPT
             !.mutations = <<[action |-> "I", gml |-> <<>>, geometry |-> NoGeometry,
                              properties |-> [NoProps EXCEPT ![n] = s]]>>] :
            n \in PropNames, s \in Strs}

NotBuilt == [kind |-> "none"]

\* The client variables of a behaviour in which no client is constructed.
NoClient ==
    /\ config = [authMode |-> "none"]
    /\ accessToken = <<>>
    /\ env = [tvsAuthSource |-> "none"]
    /\ calls = <<>>
    /\ history = [tokenStored |-> FALSE, fsOps |-> {}]

\* The flow variable of a behaviour in which the reference flow is not run.
NoFlow == flow = [pc |-> "none"]

\* The extractor variables of a behaviour in which no extractor is applied.
NoExtract ==
    /\ xIn = [op |-> "none"]
    /\ xOut = [kind |-> "none"]

BuildInit ==
    /\ \/ \E o \in BuilderOps, q \in StringProbes : bIn = [op |-> o, params |-> q]
       \/ \E n \in 0..MaxMuts :
             \E ms \in [1..n -> MutationShapes] :
                bIn = [op |-> "buildMuterenRequest",
                       params |-> [DefaultParams EXCEPT !.mutations = ms]]
    /\ bOut = NotBuilt
    /\ NoClient
    /\ NoFlow
    /\ NoExtract

Apply(op, result) ==
    /\ bIn.op = op
    /\ bOut = NotBuilt
    /\ bOut' = result
    /\ UNCHANGED <<bIn, clientVars, flow, extractVars>>

BuildBedrijfspercelen ==
    Apply("buildBedrijfspercelenRequest", buildBedrijfspercelenRequest(bIn.params))

BuildMuteren ==
    Apply("buildMuterenRequest", buildMuterenRequest(bIn.params))

BuildProcesVoortgang ==
    Apply("buildProcesVoortgangRequest",
          buildProcesVoortgangRequest(bIn.params.ticketId, bIn.params.issuerId,
                                      bIn.params.abaCredentials, bIn.params.farmId))

BuildValidatieResultaat ==
    Apply("buildValidatieResultaatRequest",
          buildValidatieResultaatRequest(bIn.params.ticketId, bIn.params.issuerId,
                                         bIn.params.abaCredentials, bIn.params.farmId))

BuildTan ==
    Apply("buildTanRequest",
          buildTanRequest(bIn.params.issuerId, bIn.params.abaCredentials))

BuildFormaliseren ==
    Apply("buildFormaliserenRequest",
          buildFormaliserenRequest(bIn.params.ticketId, bIn.params.sequenceNumber,
                                   bIn.params.tanCode, bIn.params.issuerId,
                                   bIn.params.abaCredentials))

BuildAnnuleren ==
    Apply("buildAnnulerenRequest",
          buildAnnulerenRequest(bIn.params.ticketId, bIn.params.issuerId,
                                bIn.params.abaCredentials, bIn.params.farmId))

BuildNext ==
    \/ BuildBedrijfspercelen
    \/ BuildMuteren
    \/ BuildProcesVoortgang
    \/ BuildValidatieResultaat
    \/ BuildTan
    \/ BuildFormaliseren
    \/ BuildAnnuleren

SpecBuild == BuildInit /\ [][BuildNext]_vars

(***************************************************************************)
(* Claims on the request builders (specification SpecBuild)                *)
(***************************************************************************)
IdsSet == bIn.params.issuerId # <<>> /\ bIn.params.senderId # <<>>

IsDeleteWithoutEndDate(m) == m.action = "D" /\ m.properties["EndDate"] = <<>>

HasDeleteWithoutEndDate(ms) == \E i \in 1..Len(ms) : IsDeleteWithoutEndDate(ms[i])

FirstDeleteWithoutEndDate(ms) ==
    CHOOSE i \in 1..Len(ms) :
        /\ IsDeleteWithoutEndDate(ms[i])
        /\ \A j \in 1..(i - 1) : ~IsDeleteWithoutEndDate(ms[j])

\* The mutation reaches the geometry encoder with a geometry it rejects.
EncoderRejects(m) ==
    /\ m.gml = <<>>
    /\ m.geometry # NoGeometry
    /\ m.geometry.type \notin {"Polygon", "MultiPolygon"}

SubmitOfBadDelete ==
    /\ bIn.op = "buildMuterenRequest"
    /\ bOut # NotBuilt
    /\ IdsSet
    /\ HasDeleteWithoutEndDate(bIn.params.mutations)

\* C1 as stated: a mutation list that holds, at any position, a Delete
\* without EndDate makes buildMuterenRequest throw the Delete-requires-EndDate
\* error, whatever the other mutations and whatever geometry is attached.
C1_DeleteAlwaysRaisesEndDateError ==
    SubmitOfBadDelete => bOut = Throw(DeleteRequiresEndDate)

\* C1 amended: such a list always makes buildMuterenRequest throw, so no
\* request exists to send; the error is the Delete-requires-EndDate error
\* unless the geometry encoder rejects the geometry of a mutation at or before
\* the first such Delete, and then it is the encoder's error.
C1_BadDeleteNeverBuildsRequest ==
    SubmitOfBadDelete =>
        LET ms == bIn.params.mutations
            d == FirstDeleteWithoutEndDate(ms)
        IN  /\ bOut.kind = "error"
            /\ bOut.error = IF \E j \in 1..d : EncoderRejects(ms[j])
                            THEN UnsupportedGeometry
                            ELSE DeleteRequiresEndDate

\* A Delete without EndDate in second position, after a mutation that
\* carries a structured geometry, was rejected with the Delete error.
C1_Witness ==
    /\ SubmitOfBadDelete
    /\ Len(bIn.params.mutations) = 2
    /\ bIn.params.mutations[1].geometry = PolygonGeometry
    /\ bIn.params.mutations[1].gml = <<>>
    /\ IsDeleteWithoutEndDate(bIn.params.mutations[2])
    /\ bIn.params.mutations[2].gml = RawGml
    /\ bOut = Throw(DeleteRequiresEndDate)

Entities == {AmpEntity, LtEntity, GtEntity, AposEntity, QuotEntity}

IsPrefix(e, s) == Len(e) <= Len(s) /\ SubSeq(s, 1, Len(e)) = e

\* No character of the text is markup: every & starts an entity and none of
\* < > ' " occurs.
RECURSIVE IsEscaped(_)
IsEscaped(s) ==
    IF s = <<>> THEN TRUE
    ELSE IF Head(s) = "&"
         THEN \E e \in Entities :
                 IsPrefix(e, s) /\ IsEscaped(SubSeq(s, Len(e) + 1, Len(s)))
    ELSE Head(s) \notin Special /\ IsEscaped(Tail(s))

Range(f) == {f[x] : x \in DOMAIN f}

\* The texts a request holds for caller-supplied strings, raw GML excepted.
CallerTexts(req) ==
    {req.slots[k] : k \in DOMAIN req.slots \ {"frm:SequenceNumber"}}
    \cup (IF req.header.present THEN {req.header.Username, req.header.Password} ELSE {})
    \cup UNION {Range(req.fields[i].slots) : i \in 1..Len(req.fields)}

\* C9: every caller-supplied string interpolated into a request by a request
\* builder (raw GML excepted) has & < > ' " replaced by their entities.
C9_InterpolatedStringsEscaped ==
    bOut.kind = "request" => \A text \in CallerTexts(bOut) : IsEscaped(text)

(***************************************************************************)
(* Parsed responses (xml2js with explicitArray: false).  An element with   *)
(* children is a record of its children, an element with text is           *)
(* Text(tokens), repeated elements are Array(items).  Undefined is what an *)
(* optional-chained read of an absent element evaluates to.                *)
(***************************************************************************)
Undefined == [undefined |-> TRUE]
Text(s) == [text |-> s]
Array(items) == [array |-> items]

IsText(x) == DOMAIN x = {"text"}

\* x?.k
At(x, k) == IF x # Undefined /\ ~IsText(x) /\ k \in DOMAIN x THEN x[k] ELSE Undefined

\* JavaScript !x: undefined and the empty string are falsy, objects are not.
Falsy(x) == x = Undefined \/ x = Text(<<>>)

\* a || b
OrElse(a, b) == IF Falsy(a) THEN b ELSE a

Envelope(body) == [Envelope |-> [Body |-> body]]

BodyOf(rawResponse) == At(At(rawResponse, "Envelope"), "Body")

\* parseInt(s, 10) on a text of one-character tokens: an optional sign, then
\* the longest run of digits; NaN when there is no digit.

RECURSIVE digitRun(_, _)
digitRun(s, acc) ==
    IF s # <<>> /\ IsDigit(Head(s))
    THEN digitRun(Tail(s), 10 * acc + DigitValue(Head(s)))
    ELSE acc

parseInt(s) ==
    LET negative == s # <<>> /\ Head(s) = "-"
        rest == IF s # <<>> /\ Head(s) \in {"-", "+"} THEN Tail(s) ELSE s
    IN  IF rest = <<>> \/ ~IsDigit(Head(rest)) THEN NaN
        ELSE Number(IF negative THEN 0 - digitRun(rest, 0) ELSE digitRun(rest, 0))

TextOf(x) == IF IsText(x) THEN x.text ELSE x

(***************************************************************************)
(* Response transformers of the mutation lifecycle (src/unnamed/part_001). *)
(* Each returns [kind |-> "result", ...] or throws.                        *)
(***************************************************************************)
Result(value) == [kind |-> "result", value |-> value]

\* An ensureArray that takes a bare node for an empty list.
ensureArrayUnlessBare(input) ==
    IF Falsy(input) THEN <<>>
    ELSE IF ~IsText(input) /\ "array" \in DOMAIN input THEN input.array
    ELSE <<>>

ensureArray(input) ==
    IF Falsy(input) THEN <<>>
    ELSE IF ~IsText(input) /\ "array" \in DOMAIN input THEN input.array
    ELSE <<input>>

transformMuterenResponse(rawResponse) ==
    LET body == BodyOf(rawResponse)
        response == OrElse(At(body, "MuterenBedrijfspercelenResponse"), At(body, "Response"))
    IN  IF Falsy(At(response, "TicketId"))
        THEN Throw("Invalid response: TicketId not found in MuterenBedrijfspercelenResponse")
        ELSE Result([ticketId |-> TextOf(At(response, "TicketId"))])

transformProcesVoortgangResponse(rawResponse) ==
    LET response == At(BodyOf(rawResponse), "OpvragenProcesvoortgangResponse")
        ProcesStatus == At(response, "ProcesStatus")
    IN  IF Falsy(response)
        THEN Throw("Invalid response: OpvragenProcesvoortgangResponse not found")
        ELSE Result(
               [status |-> TextOf(OrElse(At(ProcesStatus, "Code"), Text(<<"UNKNOWN">>))),
                message |-> TextOf(OrElse(At(ProcesStatus, "Name"),
                                   OrElse(At(ProcesStatus, "Description"), Text(<<>>)))),
                percentage |->
                    parseInt(TextOf(OrElse(At(ProcesStatus, "PercentageProgress"),
                                           Text(<<"0">>))))])

RECURSIVE resultMessages(_, _, _)
resultMessages(results, fv, i) ==
    IF i > Len(results) THEN <<>>
    ELSE <<[code |-> TextOf(At(results[i], "MessageCode")),
            message |-> TextOf(At(results[i], "MessageDescription")),
            severity |-> TextOf(At(results[i], "SeverityCode")),
            fieldId |-> TextOf(At(fv, "FieldId"))]>>
         \o resultMessages(results, fv, i + 1)

RECURSIVE validationMessages(_, _)
validationMessages(fieldValidations, i) ==
    IF i > Len(fieldValidations) THEN <<>>
    ELSE resultMessages(ensureArray(At(fieldValidations[i], "Result")),
                        fieldValidations[i], 1)
         \o validationMessages(fieldValidations, i + 1)

transformValidatieResultaatResponse(rawResponse) ==
    LET response == At(BodyOf(rawResponse), "OpvragenValidatieresultaatResponse")
        fieldValidations == ensureArray(At(response, "FieldValidation"))
    IN  IF Falsy(response)
        THEN Throw("Invalid response: OpvragenValidatieresultaatResponse not found")
        ELSE Result([ticketId |-> TextOf(At(response, "TicketId")),
                     messages |-> validationMessages(fieldValidations, 1),
                     proposedFields |-> fieldValidations])

transformTanResponse(rawResponse) ==
    LET response == At(BodyOf(rawResponse), "OphalenTanVolgnummerResponse")
    IN  IF Falsy(At(response, "SequenceNumber"))
        THEN Throw("Invalid response: SequenceNumber not found")
        ELSE Result([sequenceNumber |-> parseInt(TextOf(At(response, "SequenceNumber")))])

transformTransactionResponse(rawResponse) ==
    LET body == BodyOf(rawResponse)
        response == OrElse(At(body, "FormaliserenOpgaveResponse"),
                           At(body, "AnnulerenOpgaveResponse"))
    IN  IF Falsy(response)
        THEN Throw("Invalid response: Transaction response not found")
        ELSE Result([ticketId |-> TextOf(At(response, "TicketId")),
                     resultCode |-> TextOf(At(response, "ResultCode")),
                     message |-> TextOf(At(response, "ResultMessage"))])

(***************************************************************************)
(* TvsAuth.getAccessToken.  The sources hold two revisions of it:          *)
(* src/src/auth/tvs.ts and src/unnamed/part_004; env.tvsAuthSource says    *)
(* which one the build contains.  A key is a sequence of text fragments,   *)
(* String.includes looks for a fragment.                                   *)
(***************************************************************************)
PemPrivateKey ==
    <<"-----BEGIN ", "PRIVATE KEY", "-----", "MIIEvQ", "-----END ", "PRIVATE KEY", "-----">>
PemPublicKey == <<"-----BEGIN ", "PUBLIC KEY", "-----", "MIIBIj", "-----END ", "PUBLIC KEY", "-----">>
PemCertificate ==
    <<"-----BEGIN ", "CERTIFICATE", "-----", "MIIDdz", "-----END ", "CERTIFICATE", "-----">>
KeyFilePath == <<"./keys/pkio.pem">>
NotAKey == <<"NOT A ", "PRIVATE KEY">>

includes(key, fragment) == \E i \in 1..Len(key) : key[i] = fragment

Ok == [kind |-> "ok"]
NotSettled == [kind |-> "none"]
NoRequest == [present |-> FALSE]

PublicKeyProvided ==
    "Invalid PKIO Private Key: It appears you provided a PUBLIC key. Please provide the PRIVATE key."
CertificateProvided ==
    "Invalid PKIO Private Key: It appears you provided a CERTIFICATE. Please provide the PRIVATE key."
InvalidKeyFormat == "Invalid PKIO Private Key format. Expected a PEM-formatted private key"
TokenEndpointNotConfigured == "TVS Token Endpoint not configured."
KeyFormatErrors == {PublicKeyProvided, CertificateProvided, InvalidKeyFormat}

validatePrivateKey(key) ==
    IF ~includes(key, "PRIVATE KEY")
    THEN IF includes(key, "PUBLIC KEY") THEN Throw(PublicKeyProvided)
         ELSE IF includes(key, "CERTIFICATE") THEN Throw(CertificateProvided)
         ELSE Throw(InvalidKeyFormat)
    ELSE Ok

\* jwt.sign(payload, privateKey, RS256): the library signs with a PEM
\* private key and throws on anything else.
jwtSign(privateKey) ==
    IF privateKey = PemPrivateKey THEN [kind |-> "ok", signedWith |-> privateKey]
    ELSE Throw("secretOrPrivateKey must be an asymmetric key when using RS256")

\* The file the configured key names, if the value is taken as a path.
Absent == [exists |-> FALSE]
Unreadable == [exists |-> TRUE, readable |-> FALSE]
FileWith(content) == [exists |-> TRUE, readable |-> TRUE, content |-> content]

\* src/src/auth/tvs.ts lines 36-46: the key, after the file-path probe.
readKeyIfPath(privateKey, file) ==
    IF file.exists
    THEN IF file.readable THEN file.content ELSE privateKey
    ELSE privateKey

\* The file-system operations that probe performs.
fsOpsOfProbe(privateKey, file) ==
    {<<"existsSync", privateKey>>}
    \cup (IF file.exists THEN {<<"readFileSync", privateKey>>} ELSE {})

tokenRequest(tvs, clientAssertion, authorizationCode) ==
    [present |-> TRUE, url |-> tvs.tokenEndpoint, authorization |-> <<>>,
     body |-> [code |-> authorizationCode, client_assertion |-> clientAssertion]]

\* What the synchronous part of getAccessToken leaves behind: a thrown error
\* or a request in flight, the abort timer, and the file-system operations.
Started(outcome, request, timer, fsOps) ==
    [outcome |-> outcome, request |-> request, timer |-> timer, fsOps |-> fsOps]

getAccessTokenUpToFetch(tvs, privateKey, authorizationCode, timer, fsOps) ==
    IF validatePrivateKey(privateKey).kind = "error"
    THEN Started(validatePrivateKey(privateKey), NoRequest, FALSE, fsOps)
    ELSE IF jwtSign(privateKey).kind = "error"
         THEN Started(jwtSign(privateKey), NoRequest, FALSE, fsOps)
    ELSE Started(NotSettled,
                 tokenRequest(tvs, jwtSign(privateKey), authorizationCode), timer, fsOps)

\* src/src/auth/tvs.ts lines 31-78: no abort timer.
getAccessToken_tvs(tvs, file, authorizationCode) ==
    IF tvs.tokenEndpoint = <<>>
    THEN Started(Throw(TokenEndpointNotConfigured), NoRequest, FALSE, {})
    ELSE getAccessTokenUpToFetch(tvs, readKeyIfPath(tvs.pkioPrivateKey, file),
                                 authorizationCode, FALSE,
                                 fsOpsOfProbe(tvs.pkioPrivateKey, file))

\* The timer of src/unnamed/part_004 lines 182-184.
timerArmed(timeout) == timeout > 0

\* src/unnamed/part_004 lines 145-194.
getAccessToken_part_004(tvs, timeoutMs, authorizationCode) ==
    IF tvs.tokenEndpoint = <<>>
    THEN Started(Throw(TokenEndpointNotConfigured), NoRequest, FALSE, {})
    ELSE getAccessTokenUpToFetch(tvs, tvs.pkioPrivateKey, authorizationCode,
                                 timerArmed(timeoutMs), {})

getAccessToken(authorizationCode) ==
    IF env.tvsAuthSource = "src/auth/tvs.ts"
    THEN getAccessToken_tvs(config.tvs, env.keyFile, authorizationCode)
    ELSE getAccessToken_part_004(config.tvs, config.timeoutMs, authorizationCode)

(***************************************************************************)
(* RvoClient (src/unnamed/part_000).  A call is the record of one method   *)
(* invocation: phase is where its promise stands ("fetch": the transport   *)
(* request is out; "json"/"text": the response body is being read;         *)
(* "done": settled), sent counts the transport requests it issued, timer   *)
(* says whether an abort timer is running for it.                          *)
(***************************************************************************)
MaxCalls == 2       \* calls made on one client in a behaviour

AccessTokenMissing ==
    "Access token is missing. Authenticate via TVS first or set the access token."
AbaUsernameMissing == "ABA authentication mode selected but ABA username is missing."
NotTvs == "Authentication mode is not TVS or TVS configuration is missing."
RequestFailed == "Request failed: 500 - Internal Server Error"
FetchFailed == "fetch failed"
TokenRequestFailed == "Failed to obtain access token: 400 invalid_grant"
TokenEndpointTimedOut == "Request to token endpoint timed out after 30000ms"

ServiceOps ==
    {"opvragenBedrijfspercelen", "muterenBedrijfspercelen", "opvragenProcesvoortgang",
     "opvragenValidatieresultaat", "ophalenTanVolgnummer", "formaliserenOpgave",
     "annulerenOpgave"}

\* A pre-flight without checks.
noPreflight(cfg, token) == Ok

\* part_000 lines 119-130.
preflight(cfg, token) ==
    IF cfg.authMode = "TVS" /\ token = <<>> THEN Throw(AccessTokenMissing)
    ELSE IF cfg.authMode # "TVS" /\ (~cfg.aba.present \/ cfg.aba.username = <<>>)
         THEN Throw(AbaUsernameMissing)
    ELSE Ok

\* part_000 line 136.
abaCredentialsOf(cfg) == IF cfg.authMode = "TVS" THEN NoAba ELSE cfg.aba

\* part_000 lines 132-139.
opvragenBedrijfspercelenRequest(cfg, options) ==
    buildBedrijfspercelenRequest(
        [farmId |-> options.farmId, periodBeginDate |-> options.periodBeginDate,
         periodEndDate |-> options.periodEndDate, abaCredentials |-> abaCredentialsOf(cfg),
         issuerId |-> cfg.issuerId, senderId |-> cfg.senderId])

\* The requests of the mutation lifecycle methods: each method hands its
\* arguments and the client's name and credentials to its builder.
mutationRequest(op, args, cfg) ==
    CASE op = "muterenBedrijfspercelen" ->
            buildMuterenRequest(
                [farmId |-> args.farmId, mutations |-> args.mutations,
                 precedingTicketId |-> <<>>, abaCredentials |-> abaCredentialsOf(cfg),
                 issuerId |-> cfg.issuerId, senderId |-> cfg.senderId])
      [] op = "opvragenProcesvoortgang" ->
            buildProcesVoortgangRequest(args.ticketId, cfg.issuerId,
                                        abaCredentialsOf(cfg), <<>>)
      [] op = "opvragenValidatieresultaat" ->
            buildValidatieResultaatRequest(args.ticketId, cfg.issuerId,
                                           abaCredentialsOf(cfg), <<>>)
      [] op = "ophalenTanVolgnummer" ->
            buildTanRequest(cfg.issuerId, abaCredentialsOf(cfg))
      [] op = "formaliserenOpgave" ->
            buildFormaliserenRequest(args.ticketId, args.sequenceNumber, args.tanCode,
                                     cfg.issuerId, abaCredentialsOf(cfg))
      [] op = "annulerenOpgave" ->
            buildAnnulerenRequest(args.ticketId, cfg.issuerId, abaCredentialsOf(cfg), <<>>)

\* part_000 lines 141-149: endpoint and headers of the POST.
httpRequest(cfg, token, soapXml) ==
    [present |-> TRUE,
     url |-> IF cfg.authMode = "TVS" THEN "ediCropUrl" ELSE "ediCropAbaUrl",
     authorization |-> IF cfg.authMode = "TVS" /\ token # <<>>
                       THEN <<"Bearer ">> \o token ELSE <<>>,
     body |-> soapXml]

\* part_000 lines 116-152: a service method up to its await.  axios.post is
\* given no timeout, so no timer runs for the call.
serviceCall(cfg, token, soapXml) ==
    IF preflight(cfg, token).kind = "error"
    THEN Started(preflight(cfg, token), NoRequest, FALSE, {})
    ELSE IF soapXml.kind = "error" THEN Started(soapXml, NoRequest, FALSE, {})
    ELSE Started(NotSettled, httpRequest(cfg, token, soapXml), FALSE, {})

\* part_000 lines 154-157: opvragenBedrijfspercelen returns the parsed tree.
opvragenBedrijfspercelenResult(data) == Result(data)

\* The mutation lifecycle methods return what their transformer extracts.
mutationResult(op, data) ==
    CASE op = "muterenBedrijfspercelen" -> transformMuterenResponse(data)
      [] op = "opvragenProcesvoortgang" -> transformProcesVoortgangResponse(data)
      [] op = "opvragenValidatieresultaat" -> transformValidatieResultaatResponse(data)
      [] op = "ophalenTanVolgnummer" -> transformTanResponse(data)
      [] op \in {"formaliserenOpgave", "annulerenOpgave"} ->
            transformTransactionResponse(data)

parseResult(op, data) ==
    IF op = "opvragenBedrijfspercelen" THEN opvragenBedrijfspercelenResult(data)
    ELSE mutationResult(op, data)

\* A service call that sends its request again when the answer is a failure.
retryOnFailure(call, answer) ==
    IF ~answer.ok /\ call.sent < 2 THEN [call EXCEPT !.sent = @ + 1]
    ELSE [call EXCEPT !.phase = "done",
                      !.outcome = IF answer.ok THEN parseResult(call.op, answer.data)
                                  ELSE Throw(RequestFailed)]

\* part_000 lines 151-164: the await of the POST settles the call.
settleServiceCall(call, answer) ==
    [call EXCEPT !.phase = "done",
                 !.outcome = IF answer.ok THEN parseResult(call.op, answer.data)
                             ELSE Throw(RequestFailed)]

NewCall(op, args, started) ==
    [op |-> op, args |-> args,
     phase |-> IF started.outcome = NotSettled THEN "fetch" ELSE "done",
     sent |-> IF started.request.present THEN 1 ELSE 0,
     request |-> started.request,
     timer |-> started.timer,
     outcome |-> started.outcome,
     tokenStoredBefore |-> history.tokenStored]

(***************************************************************************)
(* The environment of a client: the RVO web service, the token endpoint    *)
(* and the file system.  The web service answers a request from what the   *)
(* request says: a poll reports the status of the ticket the request       *)
(* names.                                                                  *)
(***************************************************************************)
T1 == <<"TICKET-1">>
T2 == <<"TICKET-2">>
Tickets == {T1, T2}

TerminalStates ==
    {<<"GEVALIDEERD">>, <<"VALIDATIEFOUT">>, <<"TECHNISCHEFOUT">>, <<"GEANNULEERD">>}
Statuses == TerminalStates \cup {<<"IN_BEHANDELING">>}

StatusAssignments ==
    {(T1 :> <<"GEVALIDEERD">>) @@ (T2 :> <<"IN_BEHANDELING">>),
     (T1 :> <<"VALIDATIEFOUT">>) @@ (T2 :> <<"TECHNISCHEFOUT">>)}

TicketSlot ==
    ("CRPRQPV" :> "prv:TicketId") @@ ("CRPRQVB" :> "val:TicketId")
    @@ ("CRPRQFB" :> "frm:TicketId") @@ ("CRPRQAN" :> "ann:TicketId")

\* The ticket a request names.
TicketOf(soap) == soap.slots[TicketSlot[soap.op]]

ServerData(soap) ==
    CASE soap.op = "CRPRQBP" ->
            {Envelope([OpvragenBedrijfspercelenResponse |-> [Farm |-> Text(<<"farm">>)]])}
      [] soap.op = "CRPRQMB" ->
            {Envelope([MuterenBedrijfspercelenResponse |-> [TicketId |-> Text(T1)]])}
      [] soap.op = "CRPRQPV" ->
            {Envelope([OpvragenProcesvoortgangResponse |->
                [ProcesStatus |->
                    [Code |-> Text(env.statusOf[TicketOf(soap)]),
                     PercentageProgress |-> Text(<<"5", "0">>)]]])}
      [] soap.op = "CRPRQVB" ->
            {Envelope([OpvragenValidatieresultaatResponse |->
                [TicketId |-> Text(TicketOf(soap)),
                 FieldValidation |->
                    [FieldId |-> Text(<<"F1">>),
                     Result |-> [MessageCode |-> Text(<<"M1">>),
                                 MessageDescription |-> Text(<<"overlap">>),
                                 SeverityCode |-> Text(<<"FATAAL">>)]]]])}
      [] soap.op = "CRPRQOT" ->
            {Envelope([OphalenTanVolgnummerResponse |->
                [SequenceNumber |-> Text(<<"4", "2">>)]])}
      [] soap.op = "CRPRQFB" ->
            {Envelope([FormaliserenOpgaveResponse |->
                [TicketId |-> Text(TicketOf(soap)), ResultCode |-> Text(<<"OK">>),
                 ResultMessage |-> Text(<<"formalized">>)]])}
      [] soap.op = "CRPRQAN" ->
            {Envelope([AnnulerenOpgaveResponse |->
                [TicketId |-> Text(TicketOf(soap)), ResultCode |-> Text(<<"OK">>),
                 ResultMessage |-> Text(<<"cancelled">>)]])}

SoapFault == Envelope([Fault |-> [faultstring |-> Text(<<"fault">>)]])

\* What the transport can answer to a service request: a success with the
\* service's data, or a non-success status.
HttpAnswers(request) ==
    {[ok |-> TRUE, data |-> d] : d \in ServerData(request.body)} \cup {[ok |-> FALSE]}

\* The token the token endpoint issues for an authorization code.
TokenFor(code) == <<"token-for-", code>>
AuthCodes == {"code-1", "code-2"}
ManualToken == <<"manual-token">>

(***************************************************************************)
(* Client configurations and environments                                  *)
(***************************************************************************)
DefaultTimeoutMs == 30000
TokenUrl == <<"https://pp2.toegang.overheid.nl/kvo/token">>
Keys == {PemPrivateKey, PemPublicKey, PemCertificate, KeyFilePath, NotAKey}
FileStates == {Absent, Unreadable, FileWith(PemPrivateKey), FileWith(PemPublicKey)}
AbaConfigs == {NoAba, Aba(<<>>, A), Aba(A, <<>>), Aba(A, A)}

TvsConfig(key, tokenEndpoint, timeoutMs, issuerId) ==
    [authMode |-> "TVS", aba |-> NoAba, issuerId |-> issuerId, senderId |-> A,
     tvs |-> [pkioPrivateKey |-> key, tokenEndpoint |-> tokenEndpoint],
     timeoutMs |-> timeoutMs]

AbaConfig(aba, issuerId) ==
    [authMode |-> "ABA", aba |-> aba, issuerId |-> issuerId, senderId |-> A,
     tvs |-> [pkioPrivateKey |-> <<>>, tokenEndpoint |-> <<>>],
     timeoutMs |-> DefaultTimeoutMs]

WorkingTvsConfig == TvsConfig(PemPrivateKey, TokenUrl, DefaultTimeoutMs, A)
WorkingAbaConfig == AbaConfig(Aba(A, A), A)

\* The configurations of the client model vary what a service call reads:
\* the mode, the ABA credentials and the client name.
ClientConfigs ==
    {WorkingTvsConfig, TvsConfig(PemPrivateKey, TokenUrl, DefaultTimeoutMs, <<>>)}
    \cup {AbaConfig(a, A) : a \in AbaConfigs}
    \cup {AbaConfig(Aba(A, A), <<>>)}

\* The configurations of the token exchange model vary what TvsAuth reads:
\* the key, the token endpoint and the timeout.
AuthConfigs ==
    {TvsConfig(k, TokenUrl, DefaultTimeoutMs, A) : k \in Keys}
    \cup {TvsConfig(PemPrivateKey, <<>>, DefaultTimeoutMs, A),
          TvsConfig(PemPrivateKey, TokenUrl, 0, A),
          WorkingAbaConfig}

Env(src, file, st) == [tvsAuthSource |-> src, keyFile |-> file, statusOf |-> st]

TvsAuthSources(cfg) ==
    IF cfg.authMode = "TVS" THEN {"src/auth/tvs.ts", "part_004"} ELSE {"part_004"}

FirstStatusAssignment == CHOOSE f \in StatusAssignments : f[T1] = <<"GEVALIDEERD">>

\* The build holds one of the two TvsAuth revisions; the second status
\* assignment is considered with the working configurations.
ClientEnvs(cfg) ==
    {Env(src, Absent, st) :
        src \in TvsAuthSources(cfg),
        st \in IF cfg \in {WorkingTvsConfig, WorkingAbaConfig} THEN StatusAssignments
               ELSE {FirstStatusAssignment}}

\* A file of the key's name is considered when the configured key is a path.
AuthEnvs(cfg) ==
    {Env(src, file, FirstStatusAssignment) :
        src \in TvsAuthSources(cfg),
        file \in IF cfg.tvs.pkioPrivateKey = KeyFilePath THEN FileStates ELSE {Absent}}

InsertMutation ==
    [action |-> "I", gml |-> <<>>, geometry |-> PolygonGeometry, properties |-> NoProps]
DeleteMutationWithoutEndDate ==
    [action |-> "D", gml |-> <<>>, geometry |-> NoGeometry, properties |-> NoProps]

OpvragenOptions ==
    {[farmId |-> A, periodBeginDate |-> <<>>, periodEndDate |-> <<>>]}
MuterenArgs ==
    {[farmId |-> A, mutations |-> ms] :
        ms \in {<<InsertMutation>>, <<InsertMutation, DeleteMutationWithoutEndDate>>}}
TicketArgs == {[ticketId |-> t] : t \in Tickets}
FormaliserenArgs ==
    {[ticketId |-> T1, sequenceNumber |-> 42, tanCode |-> <<"TAN-1">>],
     [ticketId |-> T2, sequenceNumber |-> 7, tanCode |-> <<"TAN-2">>]}

(***************************************************************************)
(* Client model: actions                                                   *)
(***************************************************************************)
ClientInit ==
    /\ config \in ClientConfigs
    /\ env \in ClientEnvs(config)
    /\ accessToken = <<>>
    /\ calls = <<>>
    /\ history = [tokenStored |-> FALSE, fsOps |-> {}]
    /\ bIn = [op |-> "none"]
    /\ bOut = NotBuilt
    /\ NoFlow
    /\ NoExtract

\* part_000 lines 110-112.
setAccessToken ==
    /\ accessToken # ManualToken
    /\ accessToken' = ManualToken
    /\ history' = [history EXCEPT !.tokenStored = TRUE]
    /\ UNCHANGED <<config, env, calls, buildVars, flow, extractVars>>

\* A service method from its invocation to its await.
Invoke(op, args, soapXml) ==
    /\ Len(calls) < MaxCalls
    /\ calls' = Append(calls, NewCall(op, args, serviceCall(config, accessToken, soapXml)))
    /\ UNCHANGED <<config, accessToken, env, history, buildVars, flow, extractVars>>

opvragenBedrijfspercelen ==
    \E options \in OpvragenOptions :
        Invoke("opvragenBedrijfspercelen", options,
               opvragenBedrijfspercelenRequest(config, options))

muterenBedrijfspercelen ==
    \E args \in MuterenArgs :
        Invoke("muterenBedrijfspercelen", args,
               mutationRequest("muterenBedrijfspercelen", args, config))

opvragenProcesvoortgang ==
    \E args \in TicketArgs :
        Invoke("opvragenProcesvoortgang", args,
               mutationRequest("opvragenProcesvoortgang", args, config))

opvragenValidatieresultaat ==
    \E args \in {[ticketId |-> T1]} :
        Invoke("opvragenValidatieresultaat", args,
               mutationRequest("opvragenValidatieresultaat", args, config))

ophalenTanVolgnummer ==
    Invoke("ophalenTanVolgnummer", [farmId |-> <<>>],
           mutationRequest("ophalenTanVolgnummer", [farmId |-> <<>>], config))

formaliserenOpgave ==
    \E args \in FormaliserenArgs :
        Invoke("formaliserenOpgave", args,
               mutationRequest("formaliserenOpgave", args, config))

annulerenOpgave ==
    \E args \in TicketArgs :
        Invoke("annulerenOpgave", args, mutationRequest("annulerenOpgave", args, config))

\* A transport answer after which the client forgets its token when the
\* answer is a failure.
HttpRespondsDroppingToken ==
    \E c \in 1..Len(calls) :
        /\ calls[c].op \in ServiceOps
        /\ calls[c].phase = "fetch"
        /\ \E answer \in HttpAnswers(calls[c].request) :
              /\ calls' = [calls EXCEPT ![c] = settleServiceCall(@, answer)]
              /\ accessToken' = IF answer.ok THEN accessToken ELSE <<>>
        /\ UNCHANGED <<config, env, history, buildVars, flow, extractVars>>

\* The transport answers the POST of a service call (part_000 lines 151-164).
HttpResponds ==
    \E c \in 1..Len(calls) :
        /\ calls[c].op \in ServiceOps
        /\ calls[c].phase = "fetch"
        /\ \E answer \in HttpAnswers(calls[c].request) :
              calls' = [calls EXCEPT ![c] = settleServiceCall(@, answer)]
        /\ UNCHANGED <<config, accessToken, env, history, buildVars, flow, extractVars>>

\* part_000 lines 101-108 up to the await, with the synchronous part of
\* TvsAuth.getAccessToken.
exchangeAuthCode ==
    \E code \in AuthCodes :
        /\ Len(calls) < MaxCalls
        /\ LET started == IF config.authMode # "TVS"
                          THEN Started(Throw(NotTvs), NoRequest, FALSE, {})
                          ELSE getAccessToken(code)
           IN  /\ calls' = Append(calls, NewCall("exchangeAuthCode", [code |-> code], started))
               /\ history' = [history EXCEPT !.fsOps = @ \cup started.fsOps]
        /\ UNCHANGED <<config, accessToken, env, buildVars, flow, extractVars>>

\* await fetch(tokenEndpoint, ...) resolves with a response, whose body is
\* read next: response.json() when response.ok, response.text() otherwise.
TokenEndpointResponds ==
    \E c \in 1..Len(calls), ok \in BOOLEAN :
        /\ calls[c].op = "exchangeAuthCode"
        /\ calls[c].phase = "fetch"
        /\ calls' = [calls EXCEPT ![c].phase = IF ok THEN "json" ELSE "text"]
        /\ UNCHANGED <<config, accessToken, env, history, buildVars, flow, extractVars>>

\* await fetch(tokenEndpoint, ...) rejects: the error is rethrown and the
\* finally block clears the timer.
TokenEndpointUnreachable ==
    \E c \in 1..Len(calls) :
        /\ calls[c].op = "exchangeAuthCode"
        /\ calls[c].phase = "fetch"
        /\ calls' = [calls EXCEPT ![c].phase = "done", ![c].timer = FALSE,
                                  ![c].outcome = Throw(FetchFailed)]
        /\ UNCHANGED <<config, accessToken, env, history, buildVars, flow, extractVars>>

\* A failed exchange after which the client forgets its token.
TokenErrorBodyReadClearingToken ==
    \E c \in 1..Len(calls) :
        /\ calls[c].op = "exchangeAuthCode"
        /\ calls[c].phase = "text"
        /\ calls' = [calls EXCEPT ![c].phase = "done", ![c].timer = FALSE,
                                  ![c].outcome = Throw(TokenRequestFailed)]
        /\ accessToken' = <<>>
        /\ UNCHANGED <<config, env, history, buildVars, flow, extractVars>>

\* response.text() resolves: getAccessToken throws, exchangeAuthCode rejects.
TokenErrorBodyRead ==
    \E c \in 1..Len(calls) :
        /\ calls[c].op = "exchangeAuthCode"
        /\ calls[c].phase = "text"
        /\ calls' = [calls EXCEPT ![c].phase = "done", ![c].timer = FALSE,
                                  ![c].outcome = Throw(TokenRequestFailed)]
        /\ UNCHANGED <<config, accessToken, env, history, buildVars, flow, extractVars>>

\* An exchange that stores its token only when no token is stored yet.
TokenBodyReadKeepingFirst ==
    \E c \in 1..Len(calls) :
        /\ calls[c].op = "exchangeAuthCode"
        /\ calls[c].phase = "json"
        /\ LET tokenData == [access_token |-> TokenFor(calls[c].args.code)]
           IN  /\ calls' = [calls EXCEPT ![c].phase = "done", ![c].timer = FALSE,
                                         ![c].outcome = Result(tokenData)]
               /\ accessToken' = IF accessToken = <<>> THEN tokenData.access_token
                                 ELSE accessToken
        /\ history' = [history EXCEPT !.tokenStored = TRUE]
        /\ UNCHANGED <<config, env, buildVars, flow, extractVars>>

\* response.json() resolves: getAccessToken returns the token data and
\* exchangeAuthCode stores its access_token (part_000 lines 105-107).
TokenBodyRead ==
    \E c \in 1..Len(calls) :
        /\ calls[c].op = "exchangeAuthCode"
        /\ calls[c].phase = "json"
        /\ LET tokenData == [access_token |-> TokenFor(calls[c].args.code)]
           IN  /\ calls' = [calls EXCEPT ![c].phase = "done", ![c].timer = FALSE,
                                         ![c].outcome = Result(tokenData)]
               /\ accessToken' = tokenData.access_token
        /\ history' = [history EXCEPT !.tokenStored = TRUE]
        /\ UNCHANGED <<config, env, buildVars, flow, extractVars>>

\* The abort timer of part_004 lines 182-184 fires while the fetch or the
\* body read is pending: the AbortError becomes the timed-out error.
AbortTimerFires ==
    \E c \in 1..Len(calls) :
        /\ calls[c].timer
        /\ calls[c].phase \in {"fetch", "json", "text"}
        /\ calls' = [calls EXCEPT ![c].phase = "done", ![c].timer = FALSE,
                                  ![c].outcome = Throw(TokenEndpointTimedOut)]
        /\ UNCHANGED <<config, accessToken, env, history, buildVars, flow, extractVars>>

ClientNext ==
    \/ setAccessToken
    \/ exchangeAuthCode
    \/ TokenEndpointResponds
    \/ TokenEndpointUnreachable
    \/ TokenErrorBodyRead
    \/ TokenBodyRead
    \/ AbortTimerFires
    \/ opvragenBedrijfspercelen
    \/ muterenBedrijfspercelen
    \/ opvragenProcesvoortgang
    \/ opvragenValidatieresultaat
    \/ ophalenTanVolgnummer
    \/ formaliserenOpgave
    \/ annulerenOpgave
    \/ HttpResponds

SpecClient == ClientInit /\ [][ClientNext]_vars

(***************************************************************************)
(* Token exchange model: the actions of the client model that take part in *)
(* a token exchange, and one service method, over the configurations that  *)
(* TvsAuth reads.                                                          *)
(***************************************************************************)
AuthInit ==
    /\ config \in AuthConfigs
    /\ env \in AuthEnvs(config)
    /\ accessToken = <<>>
    /\ calls = <<>>
    /\ history = [tokenStored |-> FALSE, fsOps |-> {}]
    /\ bIn = [op |-> "none"]
    /\ bOut = NotBuilt
    /\ NoFlow
    /\ NoExtract

AuthNext ==
    \/ setAccessToken
    \/ exchangeAuthCode
    \/ TokenEndpointResponds
    \/ TokenEndpointUnreachable
    \/ TokenErrorBodyRead
    \/ TokenBodyRead
    \/ AbortTimerFires
    \/ opvragenBedrijfspercelen
    \/ HttpResponds

SpecAuth == AuthInit /\ [][AuthNext]_vars

(***************************************************************************)
(* Claims on the client (specification SpecClient)                         *)
(***************************************************************************)
ServiceCalls == {c \in 1..Len(calls) : calls[c].op \in ServiceOps}

\* The errors a service method throws before it reaches the transport.
PreflightErrors ==
    {AccessTokenMissing, AbaUsernameMissing, ClientNameRequired,
     "Client Name is required for the SOAP request", DeleteRequiresEndDate,
     UnsupportedGeometry}

RejectedInPreflight(call) ==
    call.outcome.kind = "error" /\ call.outcome.error \in PreflightErrors

\* C3: a service call that passes its pre-flight checks issues exactly one
\* transport request and then holds a result or an error; a call rejected in
\* pre-flight issues none; no call, a status poll of any status included,
\* issues a second request.
C3_OneTransportRequestPerCall ==
    \A c \in ServiceCalls :
        /\ calls[c].phase \in {"fetch", "done"}
        /\ calls[c].phase = "fetch" => calls[c].sent = 1 /\ calls[c].outcome = NotSettled
        /\ calls[c].phase = "done" =>
              /\ calls[c].outcome.kind \in {"result", "error"}
              /\ calls[c].sent = IF RejectedInPreflight(calls[c]) THEN 0 ELSE 1

\* A poll answered with a non-terminal status settled after its one request,
\* and so did a poll answered with a failure.
C3_Witness ==
    /\ Len(calls) = 2
    /\ calls[1].op = "opvragenProcesvoortgang"
    /\ calls[1].phase = "done"
    /\ calls[1].outcome.kind = "result"
    /\ calls[1].outcome.value.status = <<"IN_BEHANDELING">>
    /\ calls[1].sent = 1
    /\ calls[2].op = "opvragenProcesvoortgang"
    /\ calls[2].outcome = Throw(RequestFailed)
    /\ calls[2].sent = 1

\* A step of a service call: one is invoked, or one is settled.
ServiceStep ==
    \E c \in 1..Len(calls') :
        /\ calls'[c].op \in ServiceOps
        /\ c > Len(calls) \/ calls'[c] # calls[c]

\* C4: no step of a service call changes the client's configuration or its
\* access token, and a call that passes pre-flight goes to the transport with
\* a request of its own, whatever earlier calls returned.
C4_ServiceCallsLeaveClientStateAlone ==
    [][ServiceStep =>
          /\ config' = config
          /\ accessToken' = accessToken
          /\ \A c \in 1..Len(calls') :
                (c > Len(calls) /\ calls'[c].outcome = NotSettled) =>
                    calls'[c].sent = 1 /\ calls'[c].request.present]_vars

\* The same ticket was polled twice; the second poll went to the transport
\* although the first had already returned, and the token is still the one
\* that was set.
C4_Witness ==
    /\ Len(calls) = 2
    /\ calls[1].op = "opvragenProcesvoortgang"
    /\ calls[2].op = "opvragenProcesvoortgang"
    /\ calls[1].args = calls[2].args
    /\ calls[1].outcome.kind = "result"
    /\ calls[2].outcome = Throw(RequestFailed)
    /\ calls[2].sent = 1
    /\ accessToken = ManualToken

TicketOps ==
    {"opvragenProcesvoortgang", "opvragenValidatieresultaat", "formaliserenOpgave",
     "annulerenOpgave"}

\* C5: with operations on two tickets interleaved on one client, the request
\* of each operation names the ticket it was given, and each result is the one
\* the service holds for that ticket.
C5_TicketsDoNotInterfere ==
    \A c \in 1..Len(calls) :
        calls[c].op \in TicketOps =>
            /\ calls[c].request.present =>
                  TicketOf(calls[c].request.body) = calls[c].args.ticketId
            /\ calls[c].outcome.kind = "result" =>
                  IF calls[c].op = "opvragenProcesvoortgang"
                  THEN calls[c].outcome.value.status = env.statusOf[calls[c].args.ticketId]
                  ELSE calls[c].outcome.value.ticketId = calls[c].args.ticketId

\* A poll of the first ticket is still in flight while a poll of the second
\* ticket, invoked after it, has returned the second ticket's status.
C5_Witness ==
    /\ Len(calls) = 2
    /\ calls[1].op = "opvragenProcesvoortgang"
    /\ calls[1].args.ticketId = T1
    /\ calls[1].phase = "fetch"
    /\ calls[2].op = "opvragenProcesvoortgang"
    /\ calls[2].args.ticketId = T2
    /\ calls[2].outcome.kind = "result"
    /\ calls[2].outcome.value.status = env.statusOf[T2]
    /\ env.statusOf[T1] # env.statusOf[T2]

\* C6: every token exchange and every service call that is waiting for the
\* transport has an abort timer running, so that it is rejected with the
\* timed-out error when the transport does not answer in time.
C6_PendingCallsHaveTimeout ==
    \A c \in 1..Len(calls) : calls[c].phase # "done" => calls[c].timer

\* C7: in TVS mode a service call invoked before any token was stored is
\* rejected with the access-token-missing error and issues no request.
C7_NoTokenNoRequest ==
    \A c \in ServiceCalls :
        (config.authMode = "TVS" /\ ~calls[c].tokenStoredBefore) =>
            /\ calls[c].outcome = Throw(AccessTokenMissing)
            /\ calls[c].sent = 0
            /\ ~calls[c].request.present

\* A formalize call and a submit were rejected for the missing token.
C7_Witness ==
    /\ config.authMode = "TVS"
    /\ ~history.tokenStored
    /\ Len(calls) = 2
    /\ calls[1].op = "formaliserenOpgave"
    /\ calls[2].op = "muterenBedrijfspercelen"
    /\ \A c \in 1..2 : calls[c].outcome = Throw(AccessTokenMissing) /\ calls[c].sent = 0

\* C8: a request carries the credential of the configured mode and no other,
\* and in ABA mode a configuration without username or without password
\* sends no request.
C8_OneModeCredential ==
    \A c \in ServiceCalls :
        /\ calls[c].request.present =>
              IF config.authMode = "ABA"
              THEN /\ calls[c].request.body.header.present
                   /\ calls[c].request.authorization = <<>>
                   /\ calls[c].request.url = "ediCropAbaUrl"
              ELSE /\ ~calls[c].request.body.header.present
                   /\ calls[c].request.authorization # <<>>
                   /\ Head(calls[c].request.authorization) = "Bearer "
                   /\ calls[c].request.url = "ediCropUrl"
        /\ (/\ config.authMode = "ABA"
            /\ \/ ~config.aba.present
               \/ config.aba.username = <<>>
               \/ config.aba.password = <<>>) =>
              calls[c].sent = 0 /\ calls[c].outcome.kind = "error"

ExchangeCalls == {c \in 1..Len(calls) : calls[c].op = "exchangeAuthCode"}

\* C10: getAccessToken performs no file-system operation on the configured
\* key, and a key that is not a PEM private key is rejected by the key-format
\* check before any request is sent.
C10_KeyIsNeverReadFromFile ==
    /\ history.fsOps = {}
    /\ \A c \in ExchangeCalls :
          (/\ config.authMode = "TVS"
           /\ config.tvs.tokenEndpoint # <<>>
           /\ config.tvs.pkioPrivateKey \in {PemPublicKey, PemCertificate, KeyFilePath}) =>
              /\ calls[c].outcome.kind = "error"
              /\ calls[c].outcome.error \in KeyFormatErrors
              /\ calls[c].sent = 0

(***************************************************************************)
(* The reference mutation flow (examples/mutate-bedrijfspercelen-tvs.ts,   *)
(* lines 177-270).  flow.pc is the statement main() stands at, flow.log    *)
(* the client calls it has made with what each returned or threw.  A call  *)
(* returns what its transformer extracts from some answer of the service,  *)
(* or throws.                                                              *)
(***************************************************************************)
MaxPolls == 3       \* iterations of the polling loop in a behaviour

SubmitOutcomes ==
    {transformMuterenResponse(d) :
        d \in {Envelope([MuterenBedrijfspercelenResponse |-> [TicketId |-> Text(t)]]) :
                 t \in Tickets} \cup {SoapFault}}
    \cup {Throw(RequestFailed)}

PollOutcomes ==
    {transformProcesVoortgangResponse(d) :
        d \in {Envelope([OpvragenProcesvoortgangResponse |->
                    [ProcesStatus |-> [Code |-> Text(s)]]]) : s \in Statuses}
              \cup {Envelope([OpvragenProcesvoortgangResponse |->
                        [ProcesStatus |-> [Name |-> Text(<<"busy">>)]]]),
                    SoapFault}}
    \cup {Throw(RequestFailed)}

ValidationResult(severity) ==
    [MessageCode |-> Text(<<"M1">>), MessageDescription |-> Text(<<"overlap">>),
     SeverityCode |-> Text(severity)]

ValidationOutcomes(ticketId) ==
    {transformValidatieResultaatResponse(d) :
        d \in {Envelope([OpvragenValidatieresultaatResponse |->
                    [TicketId |-> Text(ticketId)]])}
              \cup {Envelope([OpvragenValidatieresultaatResponse |->
                        [TicketId |-> Text(ticketId),
                         FieldValidation |->
                            [FieldId |-> Text(<<"F1">>), Result |-> ValidationResult(sev)]]]) :
                      sev \in {<<"FATAAL">>, <<"WAARSCHUWING">>}}
              \cup {SoapFault}}
    \cup {Throw(RequestFailed)}

TanOutcomes ==
    {transformTanResponse(d) :
        d \in {Envelope([OphalenTanVolgnummerResponse |-> [SequenceNumber |-> Text(n)]]) :
                 n \in {<<"4", "2">>, <<"7">>}} \cup {SoapFault}}
    \cup {Throw(RequestFailed)}

TransactionOutcomes(ticketId, response) ==
    {transformTransactionResponse(
        Envelope(response :> [TicketId |-> Text(ticketId), ResultCode |-> Text(<<"OK">>)])),
     Throw(RequestFailed)}

\* A list of terminal states that holds the success status only.
validatedOnly == {<<"GEVALIDEERD">>}

\* Lines 186-191.
terminalStates == TerminalStates

\* A check after the loop that stops on a technical failure only.
endedOnTechnicalFailure(status) == status = <<"TECHNISCHEFOUT">>

\* Line 205: the process ended with a non-success status.
endedWithoutSuccess(status) == status # <<"GEVALIDEERD">>

\* Lines 220-222.
hasFatal(messages) == \E i \in 1..Len(messages) : messages[i].severity = <<"FATAAL">>

Logged(op, args, outcome) == Append(flow.log, [op |-> op, args |-> args, outcome |-> outcome])

FlowInit ==
    /\ flow = [pc |-> "submit", ticketId |-> <<>>, status |-> <<>>,
               sequenceNumber |-> NaN, polls |-> 0, log |-> <<>>]
    /\ bIn = [op |-> "none"]
    /\ bOut = NotBuilt
    /\ NoClient
    /\ NoExtract

\* Lines 177-180: await client.muterenBedrijfspercelen(...); a throw goes to
\* the catch block, as it does in every step below.
SubmitMutation ==
    /\ flow.pc = "submit"
    /\ \E outcome \in SubmitOutcomes :
          flow' = [flow EXCEPT
                     !.log = Logged("muterenBedrijfspercelen", [farmId |-> A], outcome),
                     !.ticketId = IF outcome.kind = "result" THEN outcome.value.ticketId
                                  ELSE @,
                     !.pc = IF outcome.kind = "result" THEN "poll" ELSE "done"]
    /\ UNCHANGED <<buildVars, clientVars, extractVars>>

\* Lines 193-209: one iteration of the polling loop, up to its sleep; when
\* the status is terminal the loop is left and the status is tested.  The
\* service reports a status that is not terminal fewer than MaxPolls times.
PollStatus ==
    /\ flow.pc = "poll"
    /\ flow.polls < MaxPolls
    /\ \E outcome \in PollOutcomes :
          /\ IF outcome.kind = "result" /\ flow.polls + 1 >= MaxPolls
             THEN outcome.value.status \in TerminalStates
             ELSE TRUE
          /\ flow' = [flow EXCEPT
                        !.log = Logged("opvragenProcesvoortgang",
                                       [ticketId |-> flow.ticketId], outcome),
                        !.polls = @ + 1,
                        !.status = IF outcome.kind = "result" THEN outcome.value.status ELSE @,
                        !.pc = IF outcome.kind # "result" THEN "done"
                               ELSE IF outcome.value.status \notin terminalStates THEN "sleep"
                               ELSE IF endedWithoutSuccess(outcome.value.status) THEN "done"
                               ELSE "validation"]
    /\ UNCHANGED <<buildVars, clientVars, extractVars>>

\* Lines 199-201: the two-second timer ends and the loop condition is tested.
SleepEnds ==
    /\ flow.pc = "sleep"
    /\ flow' = [flow EXCEPT !.pc = "poll"]
    /\ UNCHANGED <<buildVars, clientVars, extractVars>>

\* Lines 213-235.
FetchValidation ==
    /\ flow.pc = "validation"
    /\ \E outcome \in ValidationOutcomes(flow.ticketId) :
          flow' = [flow EXCEPT
                     !.log = Logged("opvragenValidatieresultaat",
                                    [ticketId |-> flow.ticketId], outcome),
                     !.pc = IF outcome.kind # "result" THEN "done"
                            ELSE IF hasFatal(outcome.value.messages) THEN "askCancel"
                            ELSE "askAction"]
    /\ UNCHANGED <<buildVars, clientVars, extractVars>>

\* Lines 225-231: the operator answers "Cancel request? (y/n)".
AnswerCancelRequest ==
    /\ flow.pc = "askCancel"
    /\ \/ \E outcome \in TransactionOutcomes(flow.ticketId, "AnnulerenOpgaveResponse") :
             flow' = [flow EXCEPT
                        !.log = Logged("annulerenOpgave", [ticketId |-> flow.ticketId],
                                       outcome),
                        !.pc = "done"]
       \/ flow' = [flow EXCEPT !.pc = "done"]
    /\ UNCHANGED <<buildVars, clientVars, extractVars>>

\* Lines 238-246: the operator answers F; the TAN sequence number is fetched.
ChooseFormalize ==
    /\ flow.pc = "askAction"
    /\ \E outcome \in TanOutcomes :
          flow' = [flow EXCEPT
                     !.log = Logged("ophalenTanVolgnummer", [farmId |-> A], outcome),
                     !.sequenceNumber = IF outcome.kind = "result"
                                        THEN outcome.value.sequenceNumber ELSE @,
                     !.pc = IF outcome.kind = "result" THEN "askTan" ELSE "done"]
    /\ UNCHANGED <<buildVars, clientVars, extractVars>>

\* Lines 261-264: the operator answers C.
ChooseCancel ==
    /\ flow.pc = "askAction"
    /\ \E outcome \in TransactionOutcomes(flow.ticketId, "AnnulerenOpgaveResponse") :
          flow' = [flow EXCEPT
                     !.log = Logged("annulerenOpgave", [ticketId |-> flow.ticketId], outcome),
                     !.pc = "done"]
    /\ UNCHANGED <<buildVars, clientVars, extractVars>>

\* Lines 265-267: any other answer.
ChooseQuit ==
    /\ flow.pc = "askAction"
    /\ flow' = [flow EXCEPT !.pc = "done"]
    /\ UNCHANGED <<buildVars, clientVars, extractVars>>

\* Lines 248-260: the operator enters a TAN code, or nothing.
EnterTanCode ==
    /\ flow.pc = "askTan"
    /\ \/ \E outcome \in TransactionOutcomes(flow.ticketId, "FormaliserenOpgaveResponse") :
             flow' = [flow EXCEPT
                        !.log = Logged("formaliserenOpgave",
                                       [ticketId |-> flow.ticketId,
                                        sequenceNumber |-> flow.sequenceNumber,
                                        tanCode |-> <<"TAN">>],
                                       outcome),
                        !.pc = "done"]
       \/ flow' = [flow EXCEPT !.pc = "done"]
    /\ UNCHANGED <<buildVars, clientVars, extractVars>>

FlowNext ==
    \/ SubmitMutation
    \/ PollStatus
    \/ SleepEnds
    \/ FetchValidation
    \/ AnswerCancelRequest
    \/ ChooseFormalize
    \/ ChooseCancel
    \/ ChooseQuit
    \/ EnterTanCode

SpecFlow == FlowInit /\ [][FlowNext]_vars

\* The flow with its awaits settling: a poll that has been called returns
\* or throws, and the two-second timer of the loop ends.
SpecFlowFair == SpecFlow /\ WF_vars(PollStatus) /\ WF_vars(SleepEnds)

(***************************************************************************)
(* Claims on the reference flow (specification SpecFlow)                   *)
(***************************************************************************)
FailedStatuses == {<<"VALIDATIEFOUT">>, <<"TECHNISCHEFOUT">>, <<"GEANNULEERD">>}

PollReturned(entry, ticketId, statuses) ==
    /\ entry.op = "opvragenProcesvoortgang"
    /\ entry.args.ticketId = ticketId
    /\ entry.outcome.kind = "result"
    /\ entry.outcome.value.status \in statuses

\* C2: the flow calls formaliserenOpgave only after a poll of the same ticket
\* returned GEVALIDEERD, and with the sequence number that an
\* ophalenTanVolgnummer call made after that poll returned; once a poll has
\* returned VALIDATIEFOUT, TECHNISCHEFOUT or GEANNULEERD it calls neither
\* formaliserenOpgave nor annulerenOpgave.
C2_FormalizeOnlyAfterValidated ==
    \A i \in 1..Len(flow.log) :
        /\ flow.log[i].op = "formaliserenOpgave" =>
              \E j \in 1..(i - 1) :
                  /\ PollReturned(flow.log[j], flow.log[i].args.ticketId, {<<"GEVALIDEERD">>})
                  /\ \E k \in (j + 1)..(i - 1) :
                        /\ flow.log[k].op = "ophalenTanVolgnummer"
                        /\ flow.log[k].outcome.kind = "result"
                        /\ flow.log[k].outcome.value.sequenceNumber
                               = flow.log[i].args.sequenceNumber
        /\ flow.log[i].op \in {"formaliserenOpgave", "annulerenOpgave"} =>
              \A j \in 1..(i - 1) :
                  ~PollReturned(flow.log[j], flow.log[i].args.ticketId, FailedStatuses)

\* The flow formalized after two polls, the second of which returned
\* GEVALIDEERD, with the sequence number 7 it had fetched.
C2_Witness ==
    /\ Len(flow.log) = 6
    /\ flow.log[2].outcome.kind = "result"
    /\ flow.log[2].outcome.value.status = <<"IN_BEHANDELING">>
    /\ PollReturned(flow.log[3], flow.ticketId, {<<"GEVALIDEERD">>})
    /\ flow.log[6].op = "formaliserenOpgave"
    /\ flow.log[6].args.sequenceNumber = Number(7)
    /\ flow.log[6].args.ticketId = T2

(***************************************************************************)
(* The extractor model.  xIn holds the name of a pure function of the      *)
(* library and its argument; the one step of a behaviour applies the       *)
(* function and stores what it returned or threw in xOut.                  *)
(***************************************************************************)
MaxDigits == 3      \* longest PercentageProgress text that is enumerated

NotApplied == [kind |-> "none"]

EmptyObject == <<>>

\* An object literal: the keys of r whose value is not undefined.
Object(r) == [k \in {k \in DOMAIN r : r[k] # Undefined} |-> r[k]]

Optional(values) == {Undefined} \cup values

PercentChars == {"0", "1", "5", "-", "a"}

PercentageTexts(n) == UNION {[1..m -> PercentChars] : m \in 0..n}

ProcesStatusNodes(n) ==
    {Object([Code |-> c, Name |-> nm, Description |-> d, PercentageProgress |-> p]) :
        c \in Optional({Text(<<"GEVALIDEERD">>)}),
        nm \in Optional({Text(<<"Gevalideerd">>)}),
        d \in Optional({Text(<<"De", "opgave", "is", "gevalideerd">>)}),
        p \in Optional({Text(s) : s \in PercentageTexts(n)})}

\* Trees without a usable ProcesStatus: no Envelope, no Body, no response
\* node, an empty response element, a response without ProcesStatus, an empty
\* ProcesStatus element, and the response of another operation.
TreesWithoutProcesStatus ==
    {EmptyObject,
     [Envelope |-> EmptyObject],
     Envelope(EmptyObject),
     Envelope([OpvragenProcesvoortgangResponse |-> Text(<<>>)]),
     Envelope([OpvragenProcesvoortgangResponse |-> EmptyObject]),
     Envelope([OpvragenProcesvoortgangResponse |-> [TicketId |-> Text(T1)]]),
     Envelope([OpvragenProcesvoortgangResponse |-> [ProcesStatus |-> Text(<<>>)]]),
     Envelope([MuterenBedrijfspercelenResponse |-> [TicketId |-> Text(T1)]])}

ProcesVoortgangTrees(n) ==
    TreesWithoutProcesStatus
        \cup {Envelope([OpvragenProcesvoortgangResponse |-> [ProcesStatus |-> s]]) :
                 s \in ProcesStatusNodes(n)}

\* Trees for transformMuterenResponse: the response node or its fallback,
\* with and without a TicketId.
MuterenTrees ==
    {EmptyObject,
     Envelope(EmptyObject),
     Envelope([MuterenBedrijfspercelenResponse |-> EmptyObject]),
     Envelope([MuterenBedrijfspercelenResponse |-> [TicketId |-> Text(<<>>)]]),
     Envelope([OpvragenProcesvoortgangResponse |-> [TicketId |-> Text(T1)]])}
        \cup {Envelope([MuterenBedrijfspercelenResponse |-> [TicketId |-> Text(t)]]) :
                 t \in Tickets}
        \cup {Envelope([Response |-> [TicketId |-> Text(t)]]) : t \in Tickets}

Input(op, args) == {[op |-> op, arg |-> a] : a \in args}

ExtractIdle ==
    /\ bIn = [op |-> "none"]
    /\ bOut = NotBuilt
    /\ NoClient
    /\ NoFlow

Extract(op, result) ==
    /\ xIn.op = op
    /\ xOut = NotApplied
    /\ xOut' = result
    /\ UNCHANGED <<xIn, buildVars, clientVars, flow>>

TransformMuteren ==
    Extract("transformMuterenResponse", transformMuterenResponse(xIn.arg))

TransformProcesVoortgang ==
    Extract("transformProcesVoortgangResponse", transformProcesVoortgangResponse(xIn.arg))

Applied(op) == xIn.op = op /\ xOut # NotApplied

(***************************************************************************)
(* Claims on the response extractors (specification SpecExtract)           *)
(***************************************************************************)
TicketIdNotFound ==
    Throw("Invalid response: TicketId not found in MuterenBedrijfspercelenResponse")
ProcesvoortgangResponseNotFound ==
    Throw("Invalid response: OpvragenProcesvoortgangResponse not found")

ResponseNodeAbsent(tree) ==
    Falsy(At(BodyOf(tree), "OpvragenProcesvoortgangResponse"))

ProcesStatusAbsent(tree) ==
    Falsy(At(At(BodyOf(tree), "OpvragenProcesvoortgangResponse"), "ProcesStatus"))

\* C11: for every response tree in which the process-status container is
\* absent (the OpvragenProcesvoortgangResponse node, or the ProcesStatus node
\* inside it), transformProcesVoortgangResponse raises the process-status
\* missing-node error, which differs from the missing-TicketId error of
\* transformMuterenResponse; it never returns a ProcessStatus in that case.
C11_AbsentStatusContainerRaises ==
    (/\ Applied("transformProcesVoortgangResponse")
     /\ ResponseNodeAbsent(xIn.arg) \/ ProcesStatusAbsent(xIn.arg))
        => /\ xOut = ProcesvoortgangResponseNotFound
           /\ xOut # TicketIdNotFound

\* The part of C11 the code keeps: an absent OpvragenProcesvoortgangResponse
\* node raises the error of that node, which is not the missing-TicketId
\* error; an absent TicketId raises the missing-TicketId error.
C11_AbsentResponseNodeRaises ==
    /\ (Applied("transformProcesVoortgangResponse") /\ ResponseNodeAbsent(xIn.arg))
          => xOut = ProcesvoortgangResponseNotFound /\ xOut # TicketIdNotFound
    /\ (Applied("transformMuterenResponse") /\ xOut.kind = "error")
          => xOut = TicketIdNotFound

(***************************************************************************)
(* Claims on formaliserenOpgave (specification SpecClient)                 *)
(***************************************************************************)
FormalizeCalls == {c \in 1..Len(calls) : calls[c].op = "formaliserenOpgave"}

IsPercentage(n) == ~n.nan /\ n.value \in 0..100

\* C13: every ProcessStatus returned by transformProcesVoortgangResponse has a
\* percentage that is an integer in 0..100, for every tree it accepts
\* (a missing, empty or non-numeric PercentageProgress included).
C13_PercentageInRange ==
    (Applied("transformProcesVoortgangResponse") /\ xOut.kind = "result")
        => IsPercentage(xOut.value.percentage)

\* The part of C13 the code keeps: a missing or empty PercentageProgress
\* gives 0, and a text of digits gives the number the digits denote.
C13_MissingPercentageIsZero ==
    (Applied("transformProcesVoortgangResponse") /\ xOut.kind = "result")
        => LET p == At(At(At(BodyOf(xIn.arg), "OpvragenProcesvoortgangResponse"),
                          "ProcesStatus"), "PercentageProgress")
           IN  /\ Falsy(p) => xOut.value.percentage = Number(0)
               /\ p = Text(<<"1", "0", "0">>) => xOut.value.percentage = Number(100)

(***************************************************************************)
(* Validation results.  A source document is a list of field validations,  *)
(* each with a FieldId and a list of results; the parser hands a list of   *)
(* no children over as an absent key (or an empty array), a list of one    *)
(* child as the bare child or as a one-element array, a longer list as an  *)
(* array.                                                                  *)
(***************************************************************************)
MaxItems == 2       \* longest list of repeated children that is enumerated

Occurrences(items) ==
    CASE Len(items) = 0 -> {Undefined, Array(<<>>)}
      [] Len(items) = 1 -> {items[1], Array(items)}
      [] OTHER -> {Array(items)}

ResultNodes ==
    {[MessageCode |-> Text(<<"M1">>), MessageDescription |-> Text(<<"overlap">>),
      SeverityCode |-> Text(<<"FATAAL">>)],
     [MessageCode |-> Text(<<"M2">>), MessageDescription |-> Text(<<"too", "small">>),
      SeverityCode |-> Text(<<"WAARSCHUWING">>)]}

FieldIds == {<<"F1">>, <<"F2">>}

ListsUpTo(S, n) == UNION {[1..m -> S] : m \in 0..n}

\* The source documents: lists of [id, results].
FieldValidationLists(n) ==
    ListsUpTo([id : FieldIds, results : ListsUpTo(ResultNodes, n)], n)

\* The FieldValidation nodes the parser can produce for one field validation.
FieldValidationNodes(fv) ==
    {Object([FieldId |-> Text(fv.id), Result |-> r]) : r \in Occurrences(fv.results)}

\* The lists of nodes the parser can produce for a list of field validations.
RECURSIVE FieldValidationNodeLists(_)
FieldValidationNodeLists(fvs) ==
    IF fvs = <<>> THEN {<<>>}
    ELSE {<<node>> \o rest :
             node \in FieldValidationNodes(Head(fvs)),
             rest \in FieldValidationNodeLists(Tail(fvs))}

\* The trees the parser can produce for a source document.
ValidatieResultaatTrees(fvs) ==
    {Envelope([OpvragenValidatieresultaatResponse |->
                  Object([TicketId |-> Text(T1), FieldValidation |-> f])]) :
        f \in UNION {Occurrences(s) : s \in FieldValidationNodeLists(fvs)}}

\* The inputs of transformValidatieResultaatResponse: a tree without the
\* response node, or a tree of a source document.
ValidatieResultaatInput(n) ==
    \/ \E tree \in {EmptyObject, Envelope(EmptyObject)} :
          xIn = [op |-> "transformValidatieResultaatResponse", arg |-> tree,
                 source |-> <<>>]
    \/ \E fvs \in FieldValidationLists(n) :
          \E tree \in ValidatieResultaatTrees(fvs) :
             xIn = [op |-> "transformValidatieResultaatResponse", arg |-> tree,
                    source |-> fvs]

TransformValidatieResultaat ==
    Extract("transformValidatieResultaatResponse",
            transformValidatieResultaatResponse(xIn.arg))

\* The messages of a source document: for each field validation in turn, one
\* message per result in turn, with the FieldId of the field validation.
MessageOf(fv, result) ==
    [code |-> result.MessageCode.text, message |-> result.MessageDescription.text,
     severity |-> result.SeverityCode.text, fieldId |-> fv.id]

RECURSIVE MessagesOf(_)
MessagesOf(fvs) ==
    IF fvs = <<>> THEN <<>>
    ELSE [j \in 1..Len(Head(fvs).results) |-> MessageOf(Head(fvs), Head(fvs).results[j])]
         \o MessagesOf(Tail(fvs))

ValidatieResponsePresent(tree) ==
    ~Falsy(At(BodyOf(tree), "OpvragenValidatieresultaatResponse"))

\* C14: transformValidatieResultaatResponse treats FieldValidation and Result
\* as sequences of 0, 1 or N items whether a single occurrence is a bare node
\* or a one-element array: the messages are, in source order, one message per
\* Result with the FieldId of its FieldValidation; with no FieldValidation the
\* message list is empty and no error is raised.
C14_ValidationMessagesInSourceOrder ==
    (Applied("transformValidatieResultaatResponse") /\ ValidatieResponsePresent(xIn.arg))
        => /\ xOut.kind = "result"
           /\ xOut.value.messages = MessagesOf(xIn.source)
           /\ xIn.source = <<>> => xOut.value.messages = <<>>

\* A bare FieldValidation node for F2 with a bare Result, after a document
\* order M2 then M1 given as arrays, has given three messages in that order.
C14_Witness ==
    /\ Applied("transformValidatieResultaatResponse")
    /\ Len(xIn.source) = 2
    /\ xIn.source[1].id = <<"F2">>
    /\ Len(xIn.source[1].results) = 2
    /\ xIn.source[1].results[1].MessageCode = Text(<<"M2">>)
    /\ xIn.source[1].results[2].MessageCode = Text(<<"M1">>)
    /\ xIn.source[2].id = <<"F1">>
    /\ Len(xIn.source[2].results) = 1
    /\ "array" \notin DOMAIN xIn.arg.Envelope.Body.OpvragenValidatieresultaatResponse
                                 .FieldValidation.array[2].Result
    /\ xOut.kind = "result"
    /\ Len(xOut.value.messages) = 3
    /\ xOut.value.messages[1].code = <<"M2">>
    /\ xOut.value.messages[2].fieldId = <<"F2">>
    /\ xOut.value.messages[3].fieldId = <<"F1">>

(***************************************************************************)
(* The geometry decoder (src/src/utils/geometry.ts).  A posList string is  *)
(* a sequence of one-character strings; " " stands for any character of    *)
(* the class \s.                                                           *)
(***************************************************************************)
MaxPosLen == 7      \* longest posList string that is enumerated

Null == [null |-> TRUE]

PosChars == {"1", "2", "a", " "}

IsSpace(c) == c = " "

\* String.prototype.trim.
RECURSIVE trimStart(_)
trimStart(s) == IF s # <<>> /\ IsSpace(Head(s)) THEN trimStart(Tail(s)) ELSE s

RECURSIVE trimEnd(_)
trimEnd(s) ==
    IF s # <<>> /\ IsSpace(s[Len(s)]) THEN trimEnd(SubSeq(s, 1, Len(s) - 1)) ELSE s

\* A trim that leaves its argument as it is.
noTrim(s) == s

trim(s) == trimEnd(trimStart(s))

\* s.split(/\s+/): the pieces between the maximal runs of whitespace; the
\* empty string gives one empty piece.
RECURSIVE splitFrom(_, _, _)
splitFrom(s, i, piece) ==
    IF i > Len(s) THEN <<piece>>
    ELSE IF IsSpace(s[i])
         THEN IF i > 1 /\ IsSpace(s[i - 1]) THEN splitFrom(s, i + 1, piece)
              ELSE <<piece>> \o splitFrom(s, i + 1, <<>>)
         ELSE splitFrom(s, i + 1, Append(piece, s[i]))

split(s) == splitFrom(s, 1, <<>>)

\* Number(piece) for a piece without whitespace: 0 for the empty string, the
\* value of an optionally signed decimal literal (digits, with or without a
\* point among them), NaN for anything else.
ToNumber(piece) ==
    LET signed == piece # <<>> /\ Head(piece) \in {"-", "+"}
        body == IF signed THEN Tail(piece) ELSE piece
        points == {i \in 1..Len(body) : body[i] = "."}
        dot == IF points = {} THEN Len(body) + 1
               ELSE CHOOSE i \in points : \A j \in points : i <= j
        whole == SubSeq(body, 1, dot - 1)
        frac == SubSeq(body, dot + 1, Len(body))
    IN  IF piece = <<>> THEN Number(0)
        ELSE IF /\ whole \o frac # <<>>
                /\ \A i \in 1..Len(whole) : IsDigit(whole[i])
                /\ \A i \in 1..Len(frac) : IsDigit(frac[i])
        THEN Decimal(Head(piece) = "-", digitRun(whole, 0),
                     [i \in 1..Len(frac) |-> DigitValue(frac[i])])
        ELSE NaN

\* The loop of parsePosList; i is the zero-based index of the source.
RECURSIVE pairUp(_, _)
pairUp(coords, i) ==
    IF i >= Len(coords) THEN <<>>
    ELSE (IF i + 1 < Len(coords) THEN <<<<coords[i + 1], coords[i + 2]>>>> ELSE <<>>)
         \o pairUp(coords, i + 2)

parsePosList(posList) ==
    IF Falsy(posList) \/ ~IsText(posList) THEN <<>>
    ELSE LET pieces == split(trim(posList.text))
             coords == [i \in 1..Len(pieces) |-> ToNumber(pieces[i])]
         IN  pairUp(coords, 0)

PosListInputs(n) ==
    {Undefined, Null, Number(123)} \cup {Text(s) : s \in ListsUpTo(PosChars, n)}

ParsePosList == Extract("parsePosList", Result(parsePosList(xIn.arg)))

(***************************************************************************)
(* Claims on parsePosList (specification SpecExtract)                      *)
(***************************************************************************)
\* The words of a string: its maximal runs of non-whitespace characters, in
\* order of their first character.
WordStarts(s) ==
    {i \in 1..Len(s) : ~IsSpace(s[i]) /\ (i = 1 \/ IsSpace(s[i - 1]))}

WordAt(s, i) ==
    SubSeq(s, i, CHOOSE j \in i..Len(s) :
                    /\ \A k \in i..j : ~IsSpace(s[k])
                    /\ j = Len(s) \/ IsSpace(s[j + 1]))

RECURSIVE WordsFrom(_, _)
WordsFrom(s, starts) ==
    IF starts = {} THEN <<>>
    ELSE LET first == CHOOSE i \in starts : \A j \in starts : i <= j
         IN  <<WordAt(s, first)>> \o WordsFrom(s, starts \ {first})

Words(s) == WordsFrom(s, WordStarts(s))

IsNumeric(word) == \A i \in 1..Len(word) : IsDigit(word[i])

ValueOf(word) == Number(digitRun(word, 0))

\* C19: parsePosList returns the empty sequence, without raising, for every
\* input that is empty, is not a string, or consists only of non-numeric
\* tokens.
C19_NonNumericInputGivesNoPoints ==
    (/\ Applied("parsePosList")
     /\ \/ ~IsText(xIn.arg)
        \/ \A i \in 1..Len(Words(xIn.arg.text)) : ~IsNumeric(Words(xIn.arg.text)[i]))
        => xOut = Result(<<>>)

\* The part of C19 the code keeps: an input that is not a string, is empty,
\* is whitespace only, or is one non-numeric token gives no points.
C19_EmptyInputGivesNoPoints ==
    (/\ Applied("parsePosList")
     /\ \/ ~IsText(xIn.arg)
        \/ Len(Words(xIn.arg.text)) = 0
        \/ /\ Len(Words(xIn.arg.text)) = 1
           /\ ~IsNumeric(Words(xIn.arg.text)[1]))
        => xOut = Result(<<>>)

NumericWords(s) == \A i \in 1..Len(Words(s)) : IsNumeric(Words(s)[i])

Padded(s) == {<<" ">> \o s, s \o <<" ">>, <<" ", " ">> \o s \o <<" ">>}

\* C20: for every whitespace-separated list of n numbers parsePosList gives
\* floor(n/2) points, point i being (number 2i-1, number 2i) counted from 1
\* in input order; a trailing unpaired number is dropped without error, and
\* leading or trailing whitespace does not change the result.
C20_PairsInInputOrder ==
    (Applied("parsePosList") /\ IsText(xIn.arg) /\ NumericWords(xIn.arg.text))
        => LET words == Words(xIn.arg.text)
           IN  /\ xOut.kind = "result"
               /\ Len(xOut.value) = Len(words) \div 2
               /\ \A i \in 1..Len(xOut.value) :
                     xOut.value[i] = <<ValueOf(words[2 * i - 1]), ValueOf(words[2 * i])>>
               /\ \A padded \in Padded(xIn.arg.text) :
                     parsePosList(Text(padded)) = xOut.value

\* Three numbers between leading and trailing whitespace have given one
\* point, the first two numbers; the third number was dropped.
C20_Witness ==
    /\ Applied("parsePosList")
    /\ xIn.arg = Text(<<" ", "1", "2", " ", "2", " ", "1">>)
    /\ xOut = Result(<< <<Number(12), Number(2)>> >>)

(***************************************************************************)
(* The feature projector (src/src/transformers/bedrijfspercelen.ts).  A    *)
(* node with text and attributes is a record with the keys "_" and "$".    *)
(***************************************************************************)
IsArray(x) == ~IsText(x) /\ "array" \in DOMAIN x

HasText(x) == ~Falsy(x) /\ ~IsText(x) /\ "_" \in DOMAIN x

transformCoordinates(coordinates) ==
    [i \in 1..Len(coordinates) |-> proj4("EPSG:28992", "EPSG:4326", coordinates[i])]

getLinearRingCoordinates(container) ==
    LET ring == At(container, "LinearRing")
        posListObj == At(ring, "posList")
        posListStr == IF IsText(posListObj) THEN posListObj ELSE At(posListObj, "_")
    IN  IF Falsy(ring) THEN <<>>
        ELSE IF Falsy(posListObj) THEN <<>>
        ELSE IF Falsy(posListStr) THEN <<>>
        ELSE transformCoordinates(parsePosList(posListStr))

\* The loop over the interior containers: rings without points are left out.
RECURSIVE interiorRings(_, _)
interiorRings(interiors, i) ==
    IF i > Len(interiors) THEN <<>>
    ELSE LET ring == getLinearRingCoordinates(interiors[i])
         IN  (IF Len(ring) > 0 THEN <<ring>> ELSE <<>>)
             \o interiorRings(interiors, i + 1)

\* A decoder that gives a polygon without rings where the exterior is missing.
convertGmlToEmptyPolygon(gmlPolygon) ==
    [type |-> "Polygon", coordinates |-> <<>>]

convertGmlToGeoJson(gmlPolygon) ==
    LET exterior == At(gmlPolygon, "exterior")
        exteriorRing == IF ~Falsy(exterior) THEN getLinearRingCoordinates(exterior)
                        ELSE <<>>
        interiorRaw == At(gmlPolygon, "interior")
        interiors == IF IsArray(interiorRaw) THEN interiorRaw.array ELSE <<interiorRaw>>
    IN  IF Falsy(gmlPolygon) THEN Null
        ELSE IF Len(exteriorRing) = 0 THEN Null
        ELSE [type |-> "Polygon",
              coordinates |-> <<exteriorRing>>
                              \o (IF ~Falsy(interiorRaw) THEN interiorRings(interiors, 1)
                                  ELSE <<>>)]

\* A processSingle that hands the indicator back as it is.
keepIndicator(indicator) == indicator

\* processSingle of processQualityIndicators.
processSingle(indicator) ==
    LET newIndicator ==
            [key \in DOMAIN indicator |->
                IF HasText(indicator[key]) /\ key # "Geometry" THEN indicator[key]["_"]
                ELSE indicator[key]]
        geoJson == convertGmlToGeoJson(newIndicator["Geometry"]["Polygon"])
    IN  IF /\ "Geometry" \in DOMAIN newIndicator
           /\ ~Falsy(newIndicator["Geometry"])
           /\ ~Falsy(At(newIndicator["Geometry"], "Polygon"))
           /\ geoJson # Null
        THEN [key \in (DOMAIN newIndicator \ {"Geometry"}) \cup {"geometry"} |->
                 IF key = "geometry" THEN geoJson ELSE newIndicator[key]]
        ELSE newIndicator

processQualityIndicators(indicators) ==
    IF Falsy(indicators) THEN indicators
    ELSE IF IsArray(indicators)
    THEN Array([i \in 1..Len(indicators.array) |-> processSingle(indicators.array[i])])
    ELSE processSingle(indicators)

\* The own keys of a value as Object.keys sees them: an array has its
\* indices as keys.
AsObject(x) ==
    IF IsArray(x)
    THEN [key \in {ToString(i - 1) : i \in 1..Len(x.array)} |->
             x.array[CHOOSE i \in 1..Len(x.array) : ToString(i - 1) = key]]
    ELSE x

extractProperties(cropField) ==
    LET object == AsObject(cropField)
    IN  [key \in DOMAIN object \ {"Border", "Geometry"} |->
            IF key = "QualityIndicatorType" THEN processQualityIndicators(object[key])
            ELSE IF HasText(object[key]) THEN object[key]["_"]
            ELSE object[key]]

\* The loop over the Field containers.
RECURSIVE features(_, _)
features(fields, i) ==
    IF i > Len(fields) THEN <<>>
    ELSE LET cropField == At(fields[i], "CropField")
             geometry == convertGmlToGeoJson(At(cropField, "Border"))
             properties == extractProperties(cropField)
         IN  (IF ~Falsy(cropField) /\ geometry # Null
              THEN <<[type |-> "Feature", geometry |-> geometry,
                      properties |-> properties]>>
              ELSE <<>>)
             \o features(fields, i + 1)

FeatureCollection(list) == [type |-> "FeatureCollection", features |-> list]

transformBedrijfspercelenToGeoJSON(response) ==
    LET envelope == IF ~Falsy(At(response, "Envelope")) THEN response.Envelope
                    ELSE response
        body == IF ~Falsy(At(envelope, "Body")) THEN envelope.Body ELSE envelope
        root == IF ~Falsy(At(body, "OpvragenBedrijfspercelenResponse"))
                THEN body.OpvragenBedrijfspercelenResponse ELSE body
        farm == At(root, "Farm")
        fieldsRaw == At(farm, "Field")
        fields == IF IsArray(fieldsRaw) THEN fieldsRaw.array ELSE <<fieldsRaw>>
    IN  IF Falsy(farm) THEN FeatureCollection(<<>>)
        ELSE IF Falsy(fieldsRaw) THEN FeatureCollection(<<>>)
        ELSE FeatureCollection(features(fields, 1))

\* A projector that raises an error where the response holds no Farm.
TransformBedrijfspercelenOrThrow ==
    Extract("transformBedrijfspercelenToGeoJSON",
            IF transformBedrijfspercelenToGeoJSON(xIn.arg).features = <<>>
            THEN Throw("Invalid response: Farm not found")
            ELSE Result(transformBedrijfspercelenToGeoJSON(xIn.arg)))

TransformBedrijfspercelen ==
    Extract("transformBedrijfspercelenToGeoJSON",
            Result(transformBedrijfspercelenToGeoJSON(xIn.arg)))

(***************************************************************************)
(* Source documents of the feature projector.  A document is a list of     *)
(* farms, a farm a list of fields, a field a list of crop fields, a crop    *)
(* field the kind of its Border.  The parser hands each list over as an    *)
(* absent key, a bare node or an array (Occurrences).                      *)
(***************************************************************************)
RingText == <<"1", " ", "2", " ", "2", " ", "1">>
HoleText == <<"1", " ", "1", " ", "2", " ", "2">>

RingOf(posList) == [LinearRing |-> [posList |-> posList]]

Attributes == [srsName |-> Text(<<"EPSG:28992">>)]

BorderKinds ==
    {"absent", "noExterior", "noLinearRing", "emptyPosList", "onePosition", "ring",
     "ringWithAttributes", "ringWithHole", "ringWithHoles"}

BorderNode(kind) ==
    CASE kind = "absent" -> Undefined
      [] kind = "noExterior" -> [interior |-> RingOf(Text(HoleText))]
      [] kind = "noLinearRing" -> [exterior |-> EmptyObject]
      [] kind = "emptyPosList" -> [exterior |-> RingOf(Text(<<>>))]
      [] kind = "onePosition" -> [exterior |-> RingOf(Text(<<"1", "2">>))]
      [] kind = "ring" -> [exterior |-> RingOf(Text(RingText))]
      [] kind = "ringWithAttributes" ->
            [exterior |-> RingOf(("_" :> Text(RingText)) @@ ("$" :> Attributes))]
      [] kind = "ringWithHole" ->
            [exterior |-> RingOf(Text(RingText)), interior |-> RingOf(Text(HoleText))]
      [] kind = "ringWithHoles" ->
            [exterior |-> RingOf(Text(RingText)),
             interior |-> Array(<<RingOf(Text(<<>>)), RingOf(Text(HoleText)),
                                  RingOf(Text(RingText))>>)]

IdOf(i, j, k) == <<ToString(<<i, j, k>>)>>

CodeNode == ("_" :> Text(<<"101">>)) @@ ("$" :> [listID |-> Text(<<"CL">>)])

CropFieldNode(i, j, k, kind) ==
    Object([CropFieldID |-> Text(IdOf(i, j, k)), CropTypeCode |-> CodeNode,
            Border |-> BorderNode(kind)])

\* The Field containers the parser can produce for field j of farm i.
FieldContainers(i, j, crops) ==
    {Object([CropField |-> c]) :
        c \in Occurrences([k \in 1..Len(crops) |-> CropFieldNode(i, j, k, crops[k])])}

RECURSIVE FieldContainerLists(_, _, _)
FieldContainerLists(i, fields, j) ==
    IF j > Len(fields) THEN {<<>>}
    ELSE {<<container>> \o rest :
             container \in FieldContainers(i, j, fields[j]),
             rest \in FieldContainerLists(i, fields, j + 1)}

FarmNodes(i, fields) ==
    {Object([Field |-> f]) :
        f \in UNION {Occurrences(s) : s \in FieldContainerLists(i, fields, 1)}}

RECURSIVE FarmNodeLists(_, _)
FarmNodeLists(farms, i) ==
    IF i > Len(farms) THEN {<<>>}
    ELSE {<<node>> \o rest :
             node \in FarmNodes(i, farms[i]), rest \in FarmNodeLists(farms, i + 1)}

Contents(farms) ==
    {Object([Farm |-> f]) : f \in UNION {Occurrences(s) : s \in FarmNodeLists(farms, 1)}}

Wrap(content, envelope, body, response) ==
    LET inResponse == IF response THEN [OpvragenBedrijfspercelenResponse |-> content]
                      ELSE content
        inBody == IF body THEN [Body |-> inResponse] ELSE inResponse
    IN  IF envelope THEN [Envelope |-> inBody] ELSE inBody

RECURSIVE FieldCount(_)
FieldCount(farms) ==
    IF farms = <<>> THEN 0 ELSE Len(Head(farms)) + FieldCount(Tail(farms))

\* Trees of a document: under the full envelope; a document without fields
\* also with the Envelope, the Body or the response node missing or empty.
TreesOf(farms) ==
    IF FieldCount(farms) > 0
    THEN {Wrap(c, TRUE, TRUE, TRUE) : c \in Contents(farms)}
    ELSE {Wrap(c, e, b, r) : c \in Contents(farms), e \in BOOLEAN, b \in BOOLEAN,
                             r \in BOOLEAN}
         \cup {[Envelope |-> Text(<<>>)], Envelope(Text(<<>>)),
               Envelope([OpvragenBedrijfspercelenResponse |-> Text(<<>>)]),
               Envelope([OpvragenBedrijfspercelenResponse |-> [Farm |-> Text(<<>>)]]),
               Envelope([OpvragenBedrijfspercelenResponse |->
                            [Farm |-> [Field |-> Text(<<>>)]]]),
               Envelope([MuterenBedrijfspercelenResponse |-> [TicketId |-> Text(T1)]])}

\* The documents: one farm whose fields hold at most one crop field each; up
\* to two farms of one field each; one field of two crop fields.
Documents(n) ==
    {<<fields>> : fields \in ListsUpTo(ListsUpTo(BorderKinds, 1), n)}
    \cup ListsUpTo({<<>>, <<<<"ring">>>>, <<<<"absent">>>>}, 2)
    \cup {<<<<crops>>>> : crops \in [1..2 -> {"absent", "ring", "ringWithHole"}]}

ProjectorInput(n) ==
    \E farms \in Documents(n) :
        \E tree \in TreesOf(farms) :
            xIn = [op |-> "transformBedrijfspercelenToGeoJSON", arg |-> tree,
                   source |-> farms, indicators |-> <<>>, plain |-> TRUE]

(***************************************************************************)
(* Claims on the feature projector (specification SpecExtract)             *)
(***************************************************************************)
Projected(x, y) == proj4("EPSG:28992", "EPSG:4326", <<Number(x), Number(y)>>)

Ring == <<Projected(1, 2), Projected(2, 1)>>
Hole == <<Projected(1, 1), Projected(2, 2)>>

\* The polygon a Border of a kind decodes to; Null when it does not decode.
GeometryOf(kind) ==
    CASE kind \in {"absent", "noExterior", "noLinearRing", "emptyPosList",
                   "onePosition"} -> Null
      [] kind \in {"ring", "ringWithAttributes"} ->
            [type |-> "Polygon", coordinates |-> <<Ring>>]
      [] kind = "ringWithHole" -> [type |-> "Polygon", coordinates |-> <<Ring, Hole>>]
      [] kind = "ringWithHoles" ->
            [type |-> "Polygon", coordinates |-> <<Ring, Hole, Ring>>]

FeatureOf(i, j, k, kind) ==
    [type |-> "Feature", geometry |-> GeometryOf(kind),
     properties |-> [CropFieldID |-> Text(IdOf(i, j, k)), CropTypeCode |-> Text(<<"101">>)]]

\* The features of a document: its crop fields in document order, those
\* whose Border does not decode left out.
RECURSIVE CropFeatures(_, _, _, _)
CropFeatures(crops, i, j, k) ==
    IF k > Len(crops) THEN <<>>
    ELSE (IF GeometryOf(crops[k]) # Null THEN <<FeatureOf(i, j, k, crops[k])>> ELSE <<>>)
         \o CropFeatures(crops, i, j, k + 1)

RECURSIVE FieldFeatures(_, _, _)
FieldFeatures(fields, i, j) ==
    IF j > Len(fields) THEN <<>>
    ELSE CropFeatures(fields[j], i, j, 1) \o FieldFeatures(fields, i, j + 1)

RECURSIVE FarmFeatures(_, _)
FarmFeatures(farms, i) ==
    IF i > Len(farms) THEN <<>>
    ELSE FieldFeatures(farms[i], i, 1) \o FarmFeatures(farms, i + 1)

Root(tree) == tree.Envelope.Body.OpvragenBedrijfspercelenResponse

FieldsOf(farm) ==
    IF IsArray(At(farm, "Field")) THEN farm.Field.array
    ELSE IF Falsy(At(farm, "Field")) THEN <<>> ELSE <<farm.Field>>

\* The tree has one Farm, given as a bare node, and every Field container
\* of it holds no CropField or one CropField given as a bare node.
BareFarmAndCropFields(tree) ==
    /\ ~Falsy(At(Root(tree), "Farm"))
    /\ ~IsArray(Root(tree).Farm)
    /\ \A j \in 1..Len(FieldsOf(Root(tree).Farm)) :
          ~IsArray(At(FieldsOf(Root(tree).Farm)[j], "CropField"))

C16_LevelsAreSequences ==
    (/\ Applied("transformBedrijfspercelenToGeoJSON")
     /\ xIn.plain
     /\ FieldCount(xIn.source) > 0)
        => xOut.value.features = FarmFeatures(xIn.source, 1)

\* C17: the projector returns a FeatureCollection without features, and
\* raises no error, for every tree without a Farm node or without a Field
\* node, the empty tree and trees without Envelope, Body or response node
\* included.
C17_NoFarmOrFieldGivesNoFeatures ==
    (Applied("transformBedrijfspercelenToGeoJSON") /\ FieldCount(xIn.source) = 0)
        => xOut = Result([type |-> "FeatureCollection", features |-> <<>>])

\* The empty tree has given an empty FeatureCollection.
C17_Witness ==
    /\ Applied("transformBedrijfspercelenToGeoJSON")
    /\ xIn.arg = EmptyObject
    /\ xOut.kind = "result"
    /\ xOut.value.features = <<>>

(***************************************************************************)
(* Quality indicators.  The crop field of these inputs has a Border that   *)
(* decodes and a QualityIndicatorType that is a list of indicators, each   *)
(* of a kind; the parser hands the list over as an absent key, a bare      *)
(* indicator or an array.                                                  *)
(***************************************************************************)
IndicatorKinds ==
    {"none", "attributes", "noPolygon", "noExterior", "emptyPosList", "polygon",
     "polygonWithHole"}

IndicatorCode(i) == <<"KI", ToString(i)>>

GeometryNode(kind) ==
    CASE kind \in {"none", "attributes"} -> Undefined
      [] kind = "noPolygon" -> [Point |-> [pos |-> Text(<<"1", " ", "2">>)]]
      [] kind = "noExterior" -> [Polygon |-> [interior |-> RingOf(Text(HoleText))]]
      [] kind = "emptyPosList" -> [Polygon |-> [exterior |-> RingOf(Text(<<>>))]]
      [] kind = "polygon" -> [Polygon |-> [exterior |-> RingOf(Text(HoleText))]]
      [] kind = "polygonWithHole" ->
            [Polygon |-> [exterior |-> RingOf(Text(RingText)),
                          interior |-> RingOf(Text(HoleText))]]

IndicatorNode(i, kind) ==
    Object([IndicatorCode |->
                IF kind = "attributes"
                THEN ("_" :> Text(IndicatorCode(i))) @@ ("$" :> [listID |-> Text(<<"CL">>)])
                ELSE Text(IndicatorCode(i)),
            Geometry |-> GeometryNode(kind)])

IndicatorTrees(kinds) ==
    {Envelope([OpvragenBedrijfspercelenResponse |->
        [Farm |-> [Field |-> [CropField |->
            Object([CropFieldID |-> Text(IdOf(1, 1, 1)),
                    Border |-> BorderNode("ring"),
                    QualityIndicatorType |-> q])]]]]) :
        q \in Occurrences([i \in 1..Len(kinds) |-> IndicatorNode(i, kinds[i])])}

IndicatorInput(n) ==
    \E kinds \in ListsUpTo(IndicatorKinds, n) :
        \E tree \in IndicatorTrees(kinds) :
            xIn = [op |-> "transformBedrijfspercelenToGeoJSON", arg |-> tree,
                   source |-> << << <<"ring">> >> >>, indicators |-> kinds,
                   plain |-> FALSE]

HasPolygon(kind) == kind \in {"noExterior", "emptyPosList", "polygon", "polygonWithHole"}

\* The polygon the Geometry/Polygon of an indicator decodes to.
IndicatorGeometry(kind) ==
    CASE kind = "polygon" -> [type |-> "Polygon", coordinates |-> <<Hole>>]
      [] kind = "polygonWithHole" -> [type |-> "Polygon", coordinates |-> <<Ring, Hole>>]
      [] OTHER -> Null

QualityIndicatorsIn(properties) ==
    IF "QualityIndicatorType" \notin DOMAIN properties THEN <<>>
    ELSE IF IsArray(properties.QualityIndicatorType)
    THEN properties.QualityIndicatorType.array
    ELSE <<properties.QualityIndicatorType>>

IndicatorsApplied ==
    /\ Applied("transformBedrijfspercelenToGeoJSON")
    /\ ~xIn.plain

\* The indicators of the feature are those of the source, in source order.
IndicatorsKept(out) ==
    /\ Len(out) = Len(xIn.indicators)
    /\ \A i \in 1..Len(out) : out[i].IndicatorCode = Text(IndicatorCode(i))

\* C18 as stated: each indicator that carries an embedded Geometry/Polygon
\* gets a 'geometry' property decoded from it and loses its raw 'Geometry'
\* container; indicators keep their source order and count; an indicator
\* without embedded geometry gets no 'geometry' property.
C18_EveryIndicatorPolygonIsPromoted ==
    IndicatorsApplied =>
        LET out == QualityIndicatorsIn(xOut.value.features[1].properties)
        IN  /\ IndicatorsKept(out)
            /\ \A i \in 1..Len(out) :
                  IF HasPolygon(xIn.indicators[i])
                  THEN /\ "geometry" \in DOMAIN out[i]
                       /\ "Geometry" \notin DOMAIN out[i]
                  ELSE "geometry" \notin DOMAIN out[i]

\* C18, amended: each indicator whose embedded Geometry/Polygon decodes to a
\* polygon gets that polygon as its 'geometry' property and loses its raw
\* 'Geometry' container; an indicator without Geometry/Polygon, or whose
\* polygon does not decode, gets no 'geometry' property and keeps what it
\* had; indicators keep their source order and count.
C18_DecodedIndicatorPolygonIsPromoted ==
    IndicatorsApplied =>
        LET out == QualityIndicatorsIn(xOut.value.features[1].properties)
        IN  /\ Len(xOut.value.features) = 1
            /\ IndicatorsKept(out)
            /\ \A i \in 1..Len(out) :
                  IF IndicatorGeometry(xIn.indicators[i]) # Null
                  THEN /\ "geometry" \in DOMAIN out[i]
                       /\ out[i].geometry = IndicatorGeometry(xIn.indicators[i])
                       /\ "Geometry" \notin DOMAIN out[i]
                  ELSE /\ "geometry" \notin DOMAIN out[i]
                       /\ "Geometry" \in DOMAIN out[i]
                             <=> xIn.indicators[i] \notin {"none", "attributes"}
                       /\ "Geometry" \in DOMAIN out[i]
                             => out[i].Geometry = GeometryNode(xIn.indicators[i])

\* Of two indicators the first has a polygon with a hole and the second a
\* polygon without exterior: the first got its geometry and lost its raw
\* container, the second kept its raw container.
C18_Witness ==
    /\ IndicatorsApplied
    /\ xIn.indicators = <<"polygonWithHole", "noExterior">>
    /\ LET out == QualityIndicatorsIn(xOut.value.features[1].properties)
       IN  /\ Len(out) = 2
           /\ out[1].geometry.coordinates = <<Ring, Hole>>
           /\ DOMAIN out[1] = {"IndicatorCode", "geometry"}
           /\ DOMAIN out[2] = {"IndicatorCode", "Geometry"}

(***************************************************************************)
(* The geometry encoder applied to caller geometries, and its GML read     *)
(* back: the text is parsed as xml2js does with explicitArray: false and   *)
(* local tag names, and the Polygon node is handed to the decoder.         *)
(***************************************************************************)
MaxRings == 2       \* most rings of a polygon, most members of a multi-polygon
MaxPoints == 2      \* most points of a ring

PosListTag == "<gml:posList srsName=\"EPSG:28992\">"

OtherTypes == {"Point", "LineString", "MultiPoint", "GeometryCollection", "undefined"}

MemberPolygons == {<<>>, <<RingA>>, <<RingB>>, <<RingA, RingB>>, <<RingB, <<>>>>}

\* Polygons: none or any exterior ring, followed by holes.
Polygons(rings, points) ==
    {[type |-> "Polygon", coordinates |-> c] :
        c \in {<<>>} \cup {<<exterior>> \o holes :
                              exterior \in ListsUpTo(Positions, points),
                              holes \in ListsUpTo({<<>>, RingA, RingB}, rings - 1)}}

MultiPolygons(members) ==
    {[type |-> "MultiPolygon", coordinates |-> c] : c \in ListsUpTo(MemberPolygons, members)}

\* Geometries of a type the encoder does not know, and one without a type.
OtherGeometries == {[type |-> t, coordinates |-> <<"P1">>] : t \in OtherTypes}

\* The local name of an opening tag; "" for any other token.
LocalName(token) ==
    CASE token = "<gml:Polygon>" -> "Polygon"
      [] token = "<gml:exterior>" -> "exterior"
      [] token = "<gml:interior>" -> "interior"
      [] token = "<gml:LinearRing>" -> "LinearRing"
      [] token = PosListTag -> "posList"
      [] token = "<gml:MultiSurface>" -> "MultiSurface"
      [] token = "<gml:surfaceMember>" -> "surfaceMember"
      [] OTHER -> ""

IsOpenTag(token) == LocalName(token) # ""

IsCloseTag(token) ==
    token \in {"</gml:Polygon>", "</gml:exterior>", "</gml:interior>",
               "</gml:LinearRing>", "</gml:posList>", "</gml:MultiSurface>",
               "</gml:surfaceMember>"}

HasAttributes(token) == token = PosListTag

SrsName == [srsName |-> Text(<<"EPSG:28992">>)]

\* The children of one name, in document order: one node, or an array.
Grouped(children) ==
    [name \in {children[k].name : k \in 1..Len(children)} |->
        LET same == SelectSeq(children, LAMBDA c : c.name = name)
        IN  IF Len(same) = 1 THEN same[1].node
            ELSE Array([k \in 1..Len(same) |-> same[k].node])]

\* The node of an element from its opening tag, text and children.
nodeOf(open, text, children) ==
    IF children # <<>> THEN Grouped(children)
    ELSE IF ~HasAttributes(open) THEN Text(text)
    ELSE IF text = <<>> THEN "$" :> SrsName
    ELSE ("_" :> Text(text)) @@ ("$" :> SrsName)

\* The content of an element from token i on, up to its closing tag.
RECURSIVE parseContent(_, _, _, _)
parseContent(tokens, i, text, children) ==
    IF i > Len(tokens) \/ IsCloseTag(tokens[i])
    THEN [text |-> text, children |-> children, next |-> i + 1]
    ELSE IF IsOpenTag(tokens[i])
    THEN LET inner == parseContent(tokens, i + 1, <<>>, <<>>)
         IN  parseContent(tokens, inner.next, text,
                          Append(children,
                                 [name |-> LocalName(tokens[i]),
                                  node |-> nodeOf(tokens[i], inner.text, inner.children)]))
    ELSE parseContent(tokens, i + 1, Append(text, tokens[i]), children)

parseStringPromise(xml) == Grouped(parseContent(xml, 1, <<>>, <<>>).children)

ConvertGeoJSONToGML ==
    LET conv == convertGeoJSONToGML(xIn.arg)
    IN  Extract("convertGeoJSONToGML",
                IF conv.ok THEN Result(conv.gml) ELSE Throw(conv.error))

\* The GML of a polygon is parsed and its Polygon node decoded.
DecodeGml ==
    /\ xIn.op = "convertGeoJSONToGML"
    /\ xIn.arg.type = "Polygon"
    /\ xOut.kind = "result"
    /\ xOut' = [kind |-> "decoded", gml |-> xOut.value,
                value |-> convertGmlToGeoJson(parseStringPromise(xOut.value).Polygon)]
    /\ UNCHANGED <<xIn, buildVars, clientVars, flow>>

EncodeInit ==
    /\ \/ xIn \in Input("convertGeoJSONToGML", {NoGeometry})
       \/ xIn \in Input("convertGeoJSONToGML", OtherGeometries)
       \/ xIn \in Input("convertGeoJSONToGML", Polygons(MaxRings, MaxPoints))
       \/ xIn \in Input("convertGeoJSONToGML", MultiPolygons(MaxRings))
    /\ xOut = NotApplied
    /\ ExtractIdle

EncodeNext ==
    \/ ConvertGeoJSONToGML
    \/ DecodeGml

SpecEncode == EncodeInit /\ [][EncodeNext]_vars

(***************************************************************************)
(* Claims on the geometry encoder (specification SpecEncode)               *)
(***************************************************************************)
Encoded == xIn.op = "convertGeoJSONToGML" /\ xOut # NotApplied

\* The encoder has returned a text, and the text it returned.
Returned == Encoded /\ xOut.kind \in {"result", "decoded"}
GmlOut == IF xOut.kind = "decoded" THEN xOut.gml ELSE xOut.value

\* C21: convertGeoJSONToGML raises the unsupported-geometry error for every
\* geometry that is not null and whose type is neither Polygon nor
\* MultiPolygon; it never returns a text for such a geometry.
C21_UnknownTypeRaises ==
    (/\ Encoded
     /\ xIn.arg # NoGeometry
     /\ xIn.arg.type \notin {"Polygon", "MultiPolygon"})
        => xOut = Throw(UnsupportedGeometry)

C21_Witness ==
    /\ Encoded
    /\ xIn.arg.type = "Point"
    /\ xOut = Throw(UnsupportedGeometry)

\* The parsed posList element of a ring: its text and its srsName attribute.
PosListNode(text) ==
    IF text = <<>> THEN "$" :> SrsName ELSE ("_" :> Text(text)) @@ ("$" :> SrsName)

RingContainer(ring) == [LinearRing |-> [posList |-> PosListNode(ringToPosList(ring))]]

\* The occurrences of a child element, as a sequence.
ChildList(node, name) ==
    IF IsText(node) \/ name \notin DOMAIN node THEN <<>>
    ELSE IF IsArray(node[name]) THEN node[name].array
    ELSE <<node[name]>>

\* The parsed Polygon element holds the rings in their places: the first as
\* its one exterior, the others as its interiors, in order.
PolygonHolds(node, rings) ==
    IF rings = <<>> THEN node = Text(<<>>)
    ELSE /\ DOMAIN node = {"exterior"} \cup (IF Len(rings) > 1 THEN {"interior"} ELSE {})
         /\ node.exterior = RingContainer(rings[1])
         /\ ChildList(node, "interior")
               = [k \in 1..(Len(rings) - 1) |-> RingContainer(rings[k + 1])]

EncodedTree == parseStringPromise(GmlOut)

PosListTexts(gml) ==
    LET opens == {i \in 1..Len(gml) : gml[i] = PosListTag}
        nth(k) == CHOOSE i \in opens : Cardinality({j \in opens : j < i}) = k - 1
        close(i) == CHOOSE j \in i..Len(gml) :
                       /\ gml[j] = "</gml:posList>"
                       /\ \A m \in i..(j - 1) : gml[m] # "</gml:posList>"
    IN  [k \in 1..Cardinality(opens) |-> SubSeq(gml, nth(k) + 1, close(nth(k)) - 1)]

\* The rings of a geometry in the order the encoder visits them.
RECURSIVE Flattened(_)
Flattened(polys) == IF polys = <<>> THEN <<>> ELSE Head(polys) \o Flattened(Tail(polys))

RingsOf(geometry) ==
    IF geometry.type = "Polygon" THEN geometry.coordinates
    ELSE Flattened(geometry.coordinates)

\* An optional minus sign, one digit or more, a point, and exactly the
\* given number of digits.
IsFixedPoint(word, places) ==
    LET body == IF word # <<>> /\ Head(word) = "-" THEN Tail(word) ELSE word
    IN  /\ Len(body) >= places + 2
        /\ body[Len(body) - places] = "."
        /\ \A i \in 1..Len(body) : i # Len(body) - places => IsDigit(body[i])

\* C27: every coordinate the encoder writes is in fixed-point notation with
\* exactly 4 digits after the point; a ring of n points is written as 2n
\* coordinates, X before Y, with one space between any two of them and none
\* before the first or after the last.
C27_CoordinatesHaveFourDecimals ==
    (Returned /\ xIn.arg.type \in {"Polygon", "MultiPolygon"})
        => LET texts == PosListTexts(GmlOut)
               rings == RingsOf(xIn.arg)
           IN  /\ Len(texts) = Len(rings)
               /\ \A k \in 1..Len(texts) :
                     LET words == Words(texts[k])
                     IN  /\ Len(words) = 2 * Len(rings[k])
                         /\ texts[k] = join(words, <<" ">>)
                         /\ \A w \in 1..Len(words) : IsFixedPoint(words[w], 4)
                         /\ \A p \in 1..Len(rings[k]) : \A axis \in 1..2 :
                               words[2 * (p - 1) + axis]
                                  = toFixed(RDNew(rings[k][p])[axis], 4)

\* A ring is written whose projected coordinates have five decimals, one
\* decimal and none, and one of them is carried into the whole part.
C27_Witness ==
    /\ Returned
    /\ xIn.arg = [type |-> "Polygon", coordinates |-> <<<<"P1", "P2">>, <<"P3">>>>]
    /\ PosListTexts(GmlOut)[2]
          = <<"-", "1", "2", ".", "5", "0", "0", "0", " ", "7", ".", "0", "0", "0", "1">>

\* x * 10^k as an integer, for a number with at most k digits after the point.
Scaled(x, k) ==
    (IF IsNegative(x) THEN 0 - 1 ELSE 1)
    * (WholeOf(x) * Pow10(k) + leadingDigits(FracOf(x), k))

\* The two numbers differ by at most half a unit of the fourth decimal.
WithinTolerance(a, b) ==
    /\ ~a.nan /\ ~b.nan
    /\ Scaled(a, 5) - Scaled(b, 5) \in (0 - 5)..5

\* The decoded polygon has the rings and points of the encoded one, each
\* point being the projection to EPSG:4326 of a point within the tolerance
\* of the EPSG:28992 image of the original.
RoundTrips ==
    LET out == xOut.value
        rings == xIn.arg.coordinates
    IN  /\ out # Null
        /\ out.type = "Polygon"
        /\ Len(out.coordinates) = Len(rings)
        /\ \A k \in 1..Len(rings) :
              /\ Len(out.coordinates[k]) = Len(rings[k])
              /\ \A p \in 1..Len(rings[k]) :
                    LET decoded == out.coordinates[k][p]
                    IN  /\ decoded.from = "EPSG:28992"
                        /\ decoded.to = "EPSG:4326"
                        /\ \A axis \in 1..2 :
                              WithinTolerance(decoded.point[axis],
                                              RDNew(rings[k][p])[axis])

DecodedPolygon ==
    /\ xIn.op = "convertGeoJSONToGML"
    /\ xOut.kind = "decoded"
    /\ \A k \in 1..Len(xIn.arg.coordinates) : xIn.arg.coordinates[k] # <<>>

\* C23 as stated: for every polygon whose rings are all non-empty, decoding
\* the GML the encoder produced gives a polygon with the same number of
\* rings, the same number of points per ring in the same order, and
\* coordinates within the 4-decimal tolerance of the originals.
C23_EveryPolygonRoundTrips == DecodedPolygon => RoundTrips

\* C23 for a polygon that has an exterior ring; the polygon without rings is
\* written as an empty element, which decodes to no geometry.
C23_PolygonWithExteriorRoundTrips ==
    (DecodedPolygon /\ Len(xIn.arg.coordinates) >= 1) => RoundTrips

C23_Witness ==
    /\ DecodedPolygon
    /\ xIn.arg.coordinates = <<<<"P1", "P2">>, <<"P3">>>>
    /\ RoundTrips
    /\ xOut.value.coordinates[1][1].point[1] # RDNew("P1")[1]

(***************************************************************************)
(* Claims on the geometry and the end date of a mutation request           *)
(* (specification SpecBuild)                                               *)
(***************************************************************************)
MuterenBuilt == bIn.op = "buildMuterenRequest" /\ bOut.kind = "request"

Mutations == bIn.params.mutations

\* The crop:Border content is the text the encoder returns for the
\* geometry, with or without the outer Polygon tags.
EncodedAs(content, geometry) ==
    /\ convertGeoJSONToGML(geometry).ok
    /\ convertGeoJSONToGML(geometry).gml
          \in {content, <<"<gml:Polygon>">> \o content \o <<"</gml:Polygon>">>}

\* C24: per mutation of a submitted request, raw GML is placed inside
\* crop:Border as it is and is preferred to a structured geometry of the
\* same mutation; a structured geometry alone is encoded by
\* convertGeoJSONToGML; with neither, the field has no crop:Border.
C24_GeometrySelection ==
    MuterenBuilt =>
        /\ Len(bOut.fields) = Len(Mutations)
        /\ \A i \in 1..Len(Mutations) :
              LET mut == Mutations[i]
                  border == bOut.fields[i].Border
              IN  /\ mut.gml # <<>>
                        => border = [present |-> TRUE, content |-> <<[raw |-> mut.gml]>>]
                  /\ (mut.gml = <<>> /\ mut.geometry # NoGeometry)
                        => border.present /\ EncodedAs(border.content, mut.geometry)
                  /\ (mut.gml = <<>> /\ mut.geometry = NoGeometry)
                        => border = NoBorder

\* A request of two fields: raw GML beside a polygon, and a polygon alone.
C24_Witness ==
    /\ MuterenBuilt
    /\ Len(Mutations) = 2
    /\ Mutations[1].gml = RawGml /\ Mutations[1].geometry = PolygonGeometry
    /\ Mutations[2].gml = <<>> /\ Mutations[2].geometry = PolygonGeometry
    /\ bOut.fields[1].Border.content = <<[raw |-> RawGml]>>
    /\ bOut.fields[2].Border.present

\* The names of the elements directly inside a crop:Border, and whether a
\* Polygon tag occurs anywhere in it.
TopLevelNames(content) ==
    LET children == parseContent(content, 1, <<>>, <<>>).children
    IN  {children[k].name : k \in 1..Len(children)}

HasPolygonTag(content) ==
    \E k \in 1..Len(content) : content[k] \in {"<gml:Polygon>", "</gml:Polygon>"}

BorderIsPolygon(border) ==
    /\ border.present
    /\ ~HasPolygonTag(border.content)
    /\ TopLevelNames(border.content) \subseteq {"exterior", "interior"}
    /\ "exterior" \in TopLevelNames(border.content)

C26_EndDateIsDateTime ==
    MuterenBuilt =>
        \A i \in 1..Len(Mutations) :
            Mutations[i].properties["EndDate"] = SomeDate
                => /\ "crop:EndDate" \in DOMAIN bOut.fields[i].slots
                   /\ bOut.fields[i].slots["crop:EndDate"] = SomeDate \o <<"T00:00:00">>

(***************************************************************************)
(* Claims on the access token slot (specifications SpecClient, SpecAuth)   *)
(***************************************************************************)
\* Call c is an exchangeAuthCode that settles in this step, with a token or
\* with an error.
ExchangeSucceeds(c) ==
    /\ calls'[c].op = "exchangeAuthCode"
    /\ calls'[c].phase = "done"
    /\ calls'[c].outcome.kind = "result"
    /\ c <= Len(calls) => calls[c].phase # "done"

ExchangeFails(c) ==
    /\ calls'[c].op = "exchangeAuthCode"
    /\ calls'[c].phase = "done"
    /\ calls'[c].outcome.kind = "error"
    /\ c <= Len(calls) => calls[c].phase # "done"

\* The step stores a token: setAccessToken, or an exchange that succeeds.
TokenIsStored ==
    \/ accessToken' = ManualToken /\ calls' = calls
    \/ \E c \in 1..Len(calls') :
          ExchangeSucceeds(c) /\ accessToken' = calls'[c].outcome.value.access_token

\* C28: in TVS mode the bearer token of a request is the token that was
\* stored last (by setAccessToken or by a successful exchangeAuthCode) when
\* the operation was invoked; a token stored while the request is in
\* flight does not change the request and is sent by every operation
\* invoked afterwards; of two overlapping exchangeAuthCode calls, the one
\* that completes last determines the stored token.
C28_TokenOfInvocationIsSent ==
    [][/\ Len(calls') >= Len(calls)
       /\ \A c \in 1..Len(calls) : calls'[c].request = calls[c].request
       /\ \A c \in (Len(calls) + 1)..Len(calls') :
             (calls'[c].op \in ServiceOps /\ config.authMode = "TVS"
              /\ calls'[c].request.present)
                => calls'[c].request.authorization = <<"Bearer ">> \o accessToken
       /\ \A c \in 1..Len(calls') :
             ExchangeSucceeds(c) => accessToken' = calls'[c].outcome.value.access_token
       /\ accessToken' # accessToken => TokenIsStored]_vars

\* A request is in flight with the token that was set before it, and an
\* exchange invoked later has stored another token.
C28_Witness ==
    /\ config.authMode = "TVS"
    /\ Len(calls) = 2
    /\ calls[1].op \in ServiceOps
    /\ calls[1].phase = "fetch"
    /\ calls[1].request.authorization = <<"Bearer ">> \o ManualToken
    /\ calls[2].op = "exchangeAuthCode"
    /\ calls[2].phase = "done"
    /\ accessToken = TokenFor(calls[2].args.code)

\* Two exchanges overlapped and the one invoked first completed last.
C28_OverlapWitness ==
    /\ Len(calls) = 2
    /\ calls[1].op = "exchangeAuthCode" /\ calls[2].op = "exchangeAuthCode"
    /\ calls[1].args.code # calls[2].args.code
    /\ calls[1].phase = "done" /\ calls[2].phase = "done"
    /\ calls[1].outcome.kind = "result" /\ calls[2].outcome.kind = "result"
    /\ accessToken = TokenFor(calls[1].args.code)

\* C29: when exchangeAuthCode fails (the mode is not TVS, the token endpoint
\* is missing, the private key is invalid, the token response is not a
\* success, or the request times out) the stored access token is left as it
\* was; the slot is written by an exchange only when it succeeds.
C29_FailedExchangeKeepsToken ==
    [][/\ (\E c \in 1..Len(calls') : ExchangeFails(c)) => accessToken' = accessToken
       /\ (accessToken' # accessToken /\ calls' # calls)
             => \E c \in 1..Len(calls') : ExchangeSucceeds(c)]_vars

\* A token was set and an exchange invoked after it has failed on a
\* non-success token response.
C29_Witness ==
    /\ accessToken = ManualToken
    /\ \E c \in 1..Len(calls) :
          /\ calls[c].op = "exchangeAuthCode"
          /\ calls[c].phase = "done"
          /\ calls[c].outcome = Throw(TokenRequestFailed)
          /\ calls[c].tokenStoredBefore

(***************************************************************************)
(* Claim on the polling loop (specification SpecFlowFair)                  *)
(***************************************************************************)
InLoop == flow.pc \in {"poll", "sleep"}

IsPoll(entry) == entry.op = "opvragenProcesvoortgang"

ReportsTerminal(entry) ==
    IsPoll(entry) /\ entry.outcome.kind = "result"
    /\ entry.outcome.value.status \in TerminalStates

\* No poll follows a poll that returned a terminal status; a poll that
\* returned any other status keeps the flow in the loop.
LoopStopsOnTerminalOnly ==
    /\ \A i \in 1..Len(flow.log) : \A j \in (i + 1)..Len(flow.log) :
          ReportsTerminal(flow.log[i]) => ~IsPoll(flow.log[j])
    /\ \A i \in 1..Len(flow.log) :
          (IsPoll(flow.log[i]) /\ flow.log[i].outcome.kind = "result"
           /\ ~ReportsTerminal(flow.log[i]))
              => \/ i < Len(flow.log) /\ IsPoll(flow.log[i + 1])
                 \/ i = Len(flow.log) /\ InLoop
    /\ (Len(flow.log) > 0 /\ ReportsTerminal(flow.log[Len(flow.log)])) => ~InLoop

\* C30: the polling loop (poll, wait, repeat) stops exactly when a poll
\* returns GEVALIDEERD, VALIDATIEFOUT, TECHNISCHEFOUT or GEANNULEERD: no poll
\* is made after the first such status, a poll that returns another status
\* is followed by the next poll, and, every poll call settling and the
\* service reporting other statuses only a bounded number of times, the
\* loop is eventually left.
C30_PollingLoopTerminates ==
    /\ []LoopStopsOnTerminalOnly
    /\ InLoop ~> ~InLoop

\* The loop was left after three polls, the last of which was the first to
\* return a terminal status.
C30_Witness ==
    /\ ~InLoop
    /\ Len(flow.log) = 4
    /\ \A i \in 2..3 : IsPoll(flow.log[i]) /\ ~ReportsTerminal(flow.log[i])
    /\ ReportsTerminal(flow.log[4])
    /\ flow.log[4].outcome.value.status = <<"TECHNISCHEFOUT">>

(***************************************************************************)
(* The specification of the extractor model                                *)
(***************************************************************************)
ExtractInit ==
    /\ \/ xIn \in Input("transformMuterenResponse", MuterenTrees)
       \/ xIn \in Input("transformProcesVoortgangResponse",
                         ProcesVoortgangTrees(MaxDigits))
       \/ ValidatieResultaatInput(MaxItems)
       \/ xIn \in Input("parsePosList", PosListInputs(MaxPosLen))
       \/ ProjectorInput(MaxItems)
       \/ IndicatorInput(MaxItems)
    /\ xOut = NotApplied
    /\ ExtractIdle

ExtractNext ==
    \/ TransformMuteren
    \/ TransformProcesVoortgang
    \/ TransformValidatieResultaat
    \/ ParsePosList
    \/ TransformBedrijfspercelen

SpecExtract == ExtractInit /\ [][ExtractNext]_vars

====
